---- MODULE Spec2Model ----
(***************************************************************************)
(* aura-stack router: the segment trie (TrieRouter.add / TrieRouter.match) *)
(* and the request pipeline of createRouter / handleRequest.               *)
(*                                                                         *)
(* A JavaScript string is a sequence of one-character strings, so that     *)
(* indexOf, slice, includes and segment[0] are computed as the code        *)
(* computes them.  A trie node is identified by the keys on the way from   *)
(* the root: a literal segment for a static child, ParamKey for the        *)
(* parameter child.                                                        *)
(***************************************************************************)
EXTENDS Integers, Sequences, FiniteSets, TLC

VARIABLES
    trie,        \* the TrieRouter instance: root tree, static map, method set
    registered,  \* the endpoints whose add() returned normally, in call order
    calls,       \* number of add() calls made so far
    last,        \* the most recent call on the matcher and what it returned
    router,      \* what createRouter returned: its configuration and handlers
    inv,         \* the handleRequest invocation in flight
    flights,     \* the objects that each of several invocations in flight holds
    heap         \* the in-place writes made to those objects: <<object, writer, stage>>

matcherVars == <<trie, registered, calls, last>>
flightVars == <<flights, heap>>

----------------------------------------------------------------------------
(* Bounds *)

MaxAdds == 2        \* add() calls in one behaviour
MaxSegs == 2        \* slash-separated pieces of a request path
MaxGlobal == 2      \* entries of the router configuration's `use` list
MaxUse == 2         \* entries of an endpoint's `use` list
MaxRouteLen == 4    \* characters of a route string given to createEndpoint
MaxFlights == 2     \* invocations of handleRequest in flight at once
MaxIssues == 2      \* issues in one validator failure

----------------------------------------------------------------------------
(* Strings *)

\* String.prototype.indexOf(ch, from): 0-based position, -1 when absent
IndexOf(s, ch, from) ==
    LET hits == { i \in (from + 1)..Len(s) : s[i] = ch }
    IN  IF hits = {} THEN -1
        ELSE (CHOOSE i \in hits : \A j \in hits : i <= j) - 1

\* String.prototype.slice(a, b) for 0 <= a <= b <= length
Slice(s, a, b) == SubSeq(s, a + 1, b)

\* String.prototype.includes(ch)
Includes(s, ch) == \E i \in 1..Len(s) : s[i] = ch

\* the escapes of the model's alphabet that decodeURIComponent accepts
PercentEscapes == (<<"2", "0">> :> " ")

\* decodeURIComponent: ok = FALSE stands for the URIError it throws on a
\* "%" that is not followed by a valid escape
RECURSIVE decodeURIComponent(_)
decodeURIComponent(s) ==
    IF s = <<>> THEN [ok |-> TRUE, value |-> <<>>]
    ELSE IF s[1] # "%"
         THEN LET rest == decodeURIComponent(Tail(s))
              IN  [ok |-> rest.ok, value |-> <<s[1]>> \o rest.value]
         ELSE IF Len(s) >= 3 /\ SubSeq(s, 2, 3) \in DOMAIN PercentEscapes
              THEN LET rest == decodeURIComponent(SubSeq(s, 4, Len(s)))
                   IN  [ok |-> rest.ok,
                        value |-> <<PercentEscapes[SubSeq(s, 2, 3)]>> \o rest.value]
              ELSE [ok |-> FALSE, value |-> <<>>]

----------------------------------------------------------------------------
(* Trie nodes and the TrieRouter *)

Undefined == [kind |-> "undefined"]
ParamKey  == <<"<param>">>
RootId    == <<>>

\* new TrieNode(): no parameter child, no static children, no endpoints
NewTrieNode == [param |-> Undefined, statics |-> {}, endpoints |-> <<>>]

\* new TrieRouter()
NewTrieRouter == [nodes |-> (RootId :> NewTrieNode), statics |-> <<>>, methods |-> {}]

NoError == [kind |-> "none"]
ConflictError(old, new) ==
    [kind |-> "RouterError", type |-> "BAD_REQUEST",
     message |-> <<"Conflicting in the route by the dynamic segment ", old, " and ", new>>]

\* f with key k set to v (Map.prototype.set)
MapSet(f, k, v) == [x \in (DOMAIN f) \cup {k} |-> IF x = k THEN v ELSE f[x]]

\* AddSegment without the comparison of the parameter names
AddSegment_AnyName(nodes, node, segment) ==
    IF segment[1] = ":"
    THEN LET name  == Slice(segment, 1, Len(segment))
             child == Append(node, ParamKey)
         IN  IF nodes[node].param = Undefined
             THEN [nodes |-> MapSet([nodes EXCEPT ![node].param = [name |-> name]],
                                    child, NewTrieNode),
                   node |-> child, error |-> NoError]
             ELSE [nodes |-> nodes, node |-> child, error |-> NoError]
    ELSE LET child == Append(node, segment)
         IN  IF segment \notin nodes[node].statics
             THEN [nodes |-> MapSet([nodes EXCEPT ![node].statics = @ \cup {segment}],
                                    child, NewTrieNode),
                   node |-> child, error |-> NoError]
             ELSE [nodes |-> nodes, node |-> child, error |-> NoError]

\* one iteration of the body of add's while loop on the segment route[prev..end)
AddSegment(nodes, node, segment) ==
    IF segment[1] = ":"
    THEN LET name  == Slice(segment, 1, Len(segment))
             param == nodes[node].param
             child == Append(node, ParamKey)
         IN  IF param = Undefined
             THEN [nodes |-> MapSet([nodes EXCEPT ![node].param = [name |-> name]],
                                    child, NewTrieNode),
                   node |-> child, error |-> NoError]
             ELSE IF param.name # name
                  THEN [nodes |-> nodes, node |-> node,
                        error |-> ConflictError(param.name, name)]
                  ELSE [nodes |-> nodes, node |-> child, error |-> NoError]
    ELSE LET child == Append(node, segment)
         IN  IF segment \notin nodes[node].statics
             THEN [nodes |-> MapSet([nodes EXCEPT ![node].statics = @ \cup {segment}],
                                    child, NewTrieNode),
                   node |-> child, error |-> NoError]
             ELSE [nodes |-> nodes, node |-> child, error |-> NoError]

\* the while loop of add: walks route from position prev, creating nodes
RECURSIVE AddWalk(_, _, _, _)
AddWalk(nodes, node, route, prev) ==
    IF ~(prev < Len(route)) THEN [nodes |-> nodes, node |-> node, error |-> NoError]
    ELSE LET curr == IndexOf(route, "/", prev)
             end  == IF curr = -1 THEN Len(route) ELSE curr
             step == IF end > prev
                     THEN AddSegment(nodes, node, Slice(route, prev, end))
                     ELSE [nodes |-> nodes, node |-> node, error |-> NoError]
         IN  IF step.error # NoError THEN step
             ELSE IF curr = -1 THEN step
             ELSE AddWalk(step.nodes, step.node, route, curr + 1)

\* SetAll that stores the endpoint under its first method only
SetAll_FirstMethod(map, methods, route, endpoint) ==
    IF methods = <<>> THEN map
    ELSE MapSet(map, <<Head(methods), route>>, endpoint)

\* for (const method of methods) this.statics.set(`${method} ${route}`, endpoint)
RECURSIVE SetAll(_, _, _, _)
SetAll(map, methods, route, endpoint) ==
    IF methods = <<>> THEN map
    ELSE SetAll(MapSet(map, <<Head(methods), route>>, endpoint), Tail(methods), route, endpoint)

\* SetEndpoints that stores the endpoint under its first method only
SetEndpoints_FirstMethod(map, methods, endpoint) ==
    IF methods = <<>> THEN map
    ELSE MapSet(map, Head(methods), endpoint)

\* for (const method of methods) node.endpoints.set(method, endpoint)
RECURSIVE SetEndpoints(_, _, _)
SetEndpoints(map, methods, endpoint) ==
    IF methods = <<>> THEN map
    ELSE SetEndpoints(MapSet(map, Head(methods), endpoint), Tail(methods), endpoint)

Range(s) == { s[i] : i \in 1..Len(s) }

\* TrieAdd that records the methods before it walks the route
TrieAdd_MethodsFirst(t, endpoint) ==
    LET isDynamic == Includes(endpoint.route, ":")
        methods   == endpoint.method
        noted     == [t EXCEPT !.methods = @ \cup Range(methods)]
    IN  IF ~isDynamic
        THEN [trie |-> [noted EXCEPT !.statics = SetAll(@, methods, endpoint.route, endpoint)],
              error |-> NoError]
        ELSE LET w == AddWalk(t.nodes, RootId, endpoint.route, 0)
             IN  IF w.error # NoError
                 THEN [trie |-> [noted EXCEPT !.nodes = w.nodes], error |-> w.error]
                 ELSE [trie |-> [noted EXCEPT
                                   !.nodes = [w.nodes EXCEPT ![w.node].endpoints =
                                                 SetEndpoints(@, methods, endpoint)]],
                       error |-> NoError]

\* TrieRouter.add(endpoint); endpoint.method is held as the array `methods`
\* that add normalises it to (a single method is a one-element array)
TrieAdd(t, endpoint) ==
    LET isDynamic == Includes(endpoint.route, ":")
        methods   == endpoint.method
    IN  IF ~isDynamic
        THEN [trie |-> [t EXCEPT !.statics = SetAll(@, methods, endpoint.route, endpoint),
                                 !.methods = @ \cup Range(methods)],
              error |-> NoError]
        ELSE LET w == AddWalk(t.nodes, RootId, endpoint.route, 0)
             IN  IF w.error # NoError
                 THEN [trie |-> [t EXCEPT !.nodes = w.nodes], error |-> w.error]
                 ELSE [trie |-> [t EXCEPT
                                   !.nodes = [w.nodes EXCEPT ![w.node].endpoints =
                                                 SetEndpoints(@, methods, endpoint)],
                                   !.methods = @ \cup Range(methods)],
                       error |-> NoError]

NoParams == <<>>
Null     == [kind |-> "null"]
URIError == [kind |-> "throw", error |-> [kind |-> "URIError"]]
Found(endpoint, params) == [kind |-> "found", endpoint |-> endpoint, params |-> params]

\* BindParam that stores the segment as it stands in the path
BindParam_Raw(params, param, segment) ==
    [ok |-> TRUE, params |-> MapSet(params, param.name, segment)]

\* params[param.name] = decodeURIComponent(segment)
BindParam(params, param, segment) ==
    LET decoded == decodeURIComponent(segment)
    IN  [ok |-> decoded.ok,
         params |-> IF decoded.ok THEN MapSet(params, param.name, decoded.value) ELSE params]

\* MatchWalk that falls back to the parameter child when the literal child
\* leads to no endpoint
RECURSIVE MatchWalk_Backtrack(_, _, _, _, _, _)
MatchWalk_Backtrack(t, node, params, method, pathname, prev) ==
    LET finish == IF method \in DOMAIN t.nodes[node].endpoints
                  THEN Found(t.nodes[node].endpoints[method], params)
                  ELSE Null
    IN  IF ~(prev < Len(pathname)) THEN finish
        ELSE LET curr == IndexOf(pathname, "/", prev)
                 end  == IF curr = -1 THEN Len(pathname) ELSE curr
                 segment == Slice(pathname, prev, end)
                 next == IF curr = -1 THEN Len(pathname) ELSE curr + 1
                 param == t.nodes[node].param
                 bound == BindParam(params, param, segment)
                 viaParam == IF param = Undefined THEN Null
                             ELSE IF ~bound.ok THEN URIError
                             ELSE MatchWalk_Backtrack(t, Append(node, ParamKey), bound.params,
                                                      method, pathname, next)
                 viaStatic == MatchWalk_Backtrack(t, Append(node, segment), params,
                                                  method, pathname, next)
             IN  IF end > prev
                 THEN IF segment \in t.nodes[node].statics
                      THEN IF viaStatic = Null THEN viaParam ELSE viaStatic
                      ELSE viaParam
                 ELSE MatchWalk_Backtrack(t, node, params, method, pathname, next)

\* the while loop of match
RECURSIVE MatchWalk(_, _, _, _, _, _)
MatchWalk(t, node, params, method, pathname, prev) ==
    LET finish == IF method \in DOMAIN t.nodes[node].endpoints
                  THEN Found(t.nodes[node].endpoints[method], params)
                  ELSE Null
    IN  IF ~(prev < Len(pathname)) THEN finish
        ELSE LET curr == IndexOf(pathname, "/", prev)
                 end  == IF curr = -1 THEN Len(pathname) ELSE curr
                 segment == Slice(pathname, prev, end)
                 next == IF curr = -1 THEN Len(pathname) ELSE curr + 1
             IN  IF end > prev
                 THEN IF segment \in t.nodes[node].statics
                      THEN MatchWalk(t, Append(node, segment), params, method, pathname, next)
                      ELSE LET param == t.nodes[node].param
                               bound == BindParam(params, param, segment)
                           IN  IF param = Undefined THEN Null
                               ELSE IF ~bound.ok THEN URIError
                               ELSE MatchWalk(t, Append(node, ParamKey), bound.params,
                                              method, pathname, next)
                 ELSE MatchWalk(t, node, params, method, pathname, next)

\* TrieRouter.match(method, pathname)
TrieMatch(t, method, pathname) ==
    IF <<method, pathname>> \in DOMAIN t.statics
    THEN Found(t.statics[<<method, pathname>>], NoParams)
    ELSE MatchWalk(t, RootId, NoParams, method, pathname, 0)

\* AfterMatch that remembers a hit in the static map
AfterMatch_Cached(t, method, pathname) ==
    LET r == TrieMatch(t, method, pathname)
    IN  IF r.kind = "found"
        THEN [t EXCEPT !.statics = MapSet(@, <<method, pathname>>, r.endpoint)]
        ELSE t

\* the matcher after match(method, pathname): match only reads this.statics
\* and the nodes' statics, param and endpoints, and writes its local `params`
AfterMatch(t, method, pathname) == t

----------------------------------------------------------------------------
(* Inputs *)

Methods == {"GET", "POST"}

\* the (method, route) declarations handed to add()
Declarations ==
    { [method |-> <<"GET">>,         route |-> <<"/", "u">>],
      [method |-> <<"GET">>,         route |-> <<"/", "u", "/", "m">>],
      [method |-> <<"GET", "POST">>, route |-> <<"/", "u", "/", "m">>],
      [method |-> <<"GET">>,         route |-> <<"/", "u", "/", ":", "i">>],
      [method |-> <<"GET">>,         route |-> <<"/", "u", "/", ":", "j">>],
      [method |-> <<"GET">>,         route |-> <<"/", "u", "/", "m", "/", ":", "i">>],
      [method |-> <<"GET", "POST">>, route |-> <<"/", "u", "/", ":", "i", "/">>] }

\* the pieces a request path is made of: empty, literals, an escape, a bare "%"
Pieces == { <<>>, <<"u">>, <<"m">>, <<"%", "2", "0">>, <<"%">> }

RECURSIVE JoinPieces(_)
JoinPieces(ps) == IF ps = <<>> THEN <<>> ELSE <<"/">> \o Head(ps) \o JoinPieces(Tail(ps))

Pathnames == UNION { { JoinPieces(ps) : ps \in [1..n -> Pieces] } : n \in 1..MaxSegs }

----------------------------------------------------------------------------
(* The matcher as a state machine *)

NoCall == [op |-> "none"]

MatcherInit ==
    /\ trie = NewTrieRouter
    /\ registered = <<>>
    /\ calls = 0
    /\ last = NoCall

\* router.add(endpoint)
Add(d) ==
    /\ calls < MaxAdds
    /\ LET endpoint == [id |-> calls + 1, method |-> d.method, route |-> d.route]
           r == TrieAdd(trie, endpoint)
       IN  /\ trie' = r.trie
           /\ registered' = IF r.error = NoError THEN Append(registered, endpoint)
                            ELSE registered
           /\ last' = [op |-> "add", endpoint |-> endpoint, error |-> r.error]
    /\ calls' = calls + 1
    /\ UNCHANGED <<router, inv, flightVars>>

\* router.match(method, pathname)
Match(method, pathname) ==
    /\ last' = [op |-> "match", method |-> method, pathname |-> pathname,
                result |-> TrieMatch(trie, method, pathname)]
    /\ trie' = AfterMatch(trie, method, pathname)
    /\ UNCHANGED <<registered, calls, router, inv, flightVars>>


----------------------------------------------------------------------------
(* Errors and responses *)

supportedMethods == {"GET", "POST", "DELETE", "PUT", "PATCH", "OPTIONS", "HEAD", "TRACE", "CONNECT"}
supportedBodyMethods == {"POST", "PUT", "PATCH"}

isSupportedMethod(method) == method \in supportedMethods
isSupportedBodyMethod(method) == method \in supportedBodyMethods

statusCode ==
    [BAD_REQUEST |-> 400, UNAUTHORIZED |-> 401, FORBIDDEN |-> 403, NOT_FOUND |-> 404,
     METHOD_NOT_ALLOWED |-> 405, UNPROCESSABLE_ENTITY |-> 422, INTERNAL_SERVER_ERROR |-> 500]

\* new RouterError(type, message)
RouterError(type, message) ==
    [kind |-> "RouterError", status |-> statusCode[type], statusText |-> type,
     message |-> message]

\* new InvalidZodSchemaError(type, errors)
InvalidZodSchemaError(type, errors) ==
    [kind |-> "InvalidZodSchemaError", status |-> statusCode[type], statusText |-> type,
     errors |-> errors]

\* anything else a user function throws; `what` is the content of the thrown value
PlainError(what) == [kind |-> "Error", message |-> what]

isRouterError(error) == error.kind = "RouterError"
isInvalidZodSchemaError(error) == error.kind = "InvalidZodSchemaError"

\* Response.json(body, { status })
ResponseJson(body, status) == [kind |-> "Response", status |-> status, body |-> body]

----------------------------------------------------------------------------
(* The validator capability and formatZodError *)

\* a path is the list of field names from the root of the input to the field
IssuePaths == { << <<"a">> >>, << <<"a">>, <<"b">> >> }
IssueCodes == { "invalid_type", "too_small" }
Issues == { [path |-> p, code |-> c, message |-> <<"message of ", c>>] :
                p \in IssuePaths, c \in IssueCodes }
IssueLists == UNION { [1..n -> Issues] : n \in 0..MaxIssues }

\* Array.prototype.join(".")
RECURSIVE JoinDot(_)
JoinDot(path) ==
    IF path = <<>> THEN <<>>
    ELSE IF Len(path) = 1 THEN path[1]
    ELSE path[1] \o <<".">> \o JoinDot(Tail(path))

\* formatZodError that keys an issue by the first element of its path
formatZodError_FirstElement(error) ==
    [key \in { i.path[1] : i \in Range(error.issues) } |->
        LET i == CHOOSE x \in Range(error.issues) : x.path[1] = key
        IN  [code |-> i.code, message |-> i.message]]

\* the reduce of formatZodError over issues[from..]
RECURSIVE FormatFrom(_, _, _)
FormatFrom(previous, issues, from) ==
    IF from > Len(issues) THEN previous
    ELSE FormatFrom(MapSet(previous, JoinDot(issues[from].path),
                           [code |-> issues[from].code, message |-> issues[from].message]),
                    issues, from + 1)

formatZodError(error) ==
    IF Len(error.issues) = 0 THEN <<>>
    ELSE FormatFrom(<<>>, error.issues, 1)

\* what schema.safeParse(input) can return: the typed output, or an issue list
Typed(input) == [kind |-> "typed", of |-> input]
SafeParseResults(input) ==
    { [success |-> TRUE, data |-> Typed(input)] }
    \cup { [success |-> FALSE, error |-> [issues |-> is]] : is \in IssueLists }

----------------------------------------------------------------------------
(* Context extraction; `parsed` is what the validator returned *)

Returned(value) == [kind |-> "return", value |-> value]
Thrown(error) == [kind |-> "throw", error |-> error]

HasSchema(config, slot) == slot \in config.schemas

\* getRouteParams that hands the raw parameters on when validation fails
getRouteParams_Lenient(params, config, parsed) ==
    IF HasSchema(config, "params") /\ parsed.success
    THEN Returned(parsed.data)
    ELSE Returned(params)

\* getRouteParams(params, config)
getRouteParams(params, config, parsed) ==
    IF HasSchema(config, "params")
    THEN IF ~parsed.success
         THEN Thrown(InvalidZodSchemaError("UNPROCESSABLE_ENTITY", formatZodError(parsed.error)))
         ELSE Returned(parsed.data)
    ELSE Returned(params)

\* Object.fromEntries(route.searchParams.entries()) and new URLSearchParams(...)
PlainQuery(search) == [kind |-> "object", of |-> search]
URLSearchParams(search) == [kind |-> "URLSearchParams", of |-> search]

\* getSearchParams(url, config)
getSearchParams(url, config, parsed) ==
    IF HasSchema(config, "searchParams")
    THEN IF ~parsed.success
         THEN Thrown(InvalidZodSchemaError("UNPROCESSABLE_ENTITY", formatZodError(parsed.error)))
         ELSE Returned(parsed.data)
    ELSE Returned(URLSearchParams(url.search))

\* the Content-Type header values of the model and the needles each contains
ContentTypes ==
    { "", "application/json", "application/x-www-form-urlencoded", "text/plain",
      "application/octet-stream", "image/png", "application/zip" }

ContainsNeedle(contentType, needle) ==
    \/ contentType = needle
    \/ contentType = "text/plain" /\ needle = "text/"
    \/ contentType = "image/png" /\ needle = "image/"

\* createContentTypeRegex(contentTypes, contentType)
\* createContentTypeRegex whose pattern joins the content types without "|"
createContentTypeRegex_Joined(contentTypes, contentType) ==
    \A needle \in contentTypes : ContainsNeedle(contentType, needle)

createContentTypeRegex(contentTypes, contentType) ==
    \E needle \in contentTypes : ContainsNeedle(contentType, needle)

UnprocessableBody ==
    RouterError("UNPROCESSABLE_ENTITY",
                "Invalid request body, the content-type does not match the body format")

\* a decoded body: which reader of the clone produced it
Decoded(reader) == [kind |-> "body", reader |-> reader]

\* getBody(request, config); decodes = the reader of the clone settles without
\* throwing, parsed = what the validator returned for the decoded JSON
getBody(request, config, decodes, parsed) ==
    LET contentType == request.contentType IN
    IF ~isSupportedBodyMethod(request.method) THEN Returned(Null)
    ELSE IF ContainsNeedle(contentType, "application/json") \/ HasSchema(config, "body")
    THEN IF ~decodes THEN Thrown(PlainError("SyntaxError"))
         ELSE IF HasSchema(config, "body")
              THEN IF ~parsed.success
                   THEN Thrown(InvalidZodSchemaError("UNPROCESSABLE_ENTITY",
                                                     formatZodError(parsed.error)))
                   ELSE Returned(parsed.data)
              ELSE Returned(Decoded("json"))
    ELSE IF createContentTypeRegex({"application/x-www-form-urlencoded", "multipart/form-data"},
                                   contentType)
    THEN IF decodes THEN Returned(Decoded("formData")) ELSE Thrown(UnprocessableBody)
    ELSE IF createContentTypeRegex({"text/", "application/xml"}, contentType)
    THEN IF decodes THEN Returned(Decoded("text")) ELSE Thrown(UnprocessableBody)
    ELSE IF createContentTypeRegex({"application/octet-stream"}, contentType)
    THEN IF decodes THEN Returned(Decoded("arrayBuffer")) ELSE Thrown(UnprocessableBody)
    ELSE IF createContentTypeRegex({"image/", "video/", "audio/", "application/pdf"}, contentType)
    THEN IF decodes THEN Returned(Decoded("blob")) ELSE Thrown(UnprocessableBody)
    ELSE Returned(Null)

----------------------------------------------------------------------------
(* createRouter *)

\* the endpoints handed to createRouter; config.use is the length of the
\* endpoint's middleware list, config.schemas the slots that have a schema
AppEndpoints(schemas) ==
    << [method |-> <<"GET">>,  route |-> <<"/", "s">>,
        config |-> [schemas |-> {}, use |-> 0]],
       [method |-> <<"POST">>, route |-> <<"/", "u", "/", ":", "i">>,
        config |-> [schemas |-> schemas, use |-> MaxUse]],
       [method |-> <<"GET">>,  route |-> <<"/", "g", "/", ":", "i">>,
        config |-> [schemas |-> {}, use |-> MaxUse]],
       [method |-> <<"POST">>, route |-> <<"/", "p">>,
        config |-> [schemas |-> {}, use |-> 0]] >>

\* the endpoint lists handed to createRouter: none, one endpoint declared for
\* an array of methods, and the application's endpoints
EndpointLists(schemas) ==
    { <<>>,
      << [method |-> <<"GET", "DELETE">>, route |-> <<"/", "s">>,
          config |-> [schemas |-> schemas \cap {"body"}, use |-> 0]] >>,
      AppEndpoints(schemas) }

BasePaths == { <<>>, <<"/", "a">> }
SchemaChoices == { {}, {"params", "body", "searchParams"} }

\* WithBasePath that registers the pattern as declared
WithBasePath_Bare(config, endpoint) == endpoint.route

\* const withBasePath = config.basePath ? `${config.basePath}${endpoint.route}` : endpoint.route
WithBasePath(config, endpoint) ==
    IF config.basePath # <<>> THEN config.basePath \o endpoint.route ELSE endpoint.route

\* EndpointMethods that takes the first method of the array only
EndpointMethods_First(endpoint) == {endpoint.method[1]}

\* const endpointMethods = Array.isArray(endpoint.method) ? endpoint.method : [endpoint.method]
EndpointMethods(endpoint) == Range(endpoint.method)

\* the loop of createRouter over endpoints[from..]: router.add and methods.add
RECURSIVE CreateRouterFrom(_, _, _, _)
CreateRouterFrom(acc, endpoints, config, from) ==
    IF from > Len(endpoints) \/ acc.error # NoError THEN acc
    ELSE LET endpoint == endpoints[from]
             withBasePath == WithBasePath(config, endpoint)
             added == [id |-> from, method |-> endpoint.method, route |-> withBasePath,
                       config |-> endpoint.config]
             r == TrieAdd(acc.trie, added)
         IN  CreateRouterFrom(
                 [trie |-> r.trie,
                  error |-> r.error,
                  registered |-> IF r.error = NoError THEN Append(acc.registered, added)
                                 ELSE acc.registered,
                  methods |-> IF r.error = NoError THEN acc.methods \cup EndpointMethods(endpoint)
                              ELSE acc.methods],
                 endpoints, config, from + 1)

\* createRouter(endpoints, config): server holds the methods that get a handler
createRouter(endpoints, config) ==
    LET built == CreateRouterFrom([trie |-> NewTrieRouter, error |-> NoError,
                                   registered |-> <<>>, methods |-> {}],
                                  endpoints, config, 1)
    IN  [trie |-> built.trie, error |-> built.error, registered |-> built.registered,
         config |-> config, declared |-> endpoints, server |-> built.methods]

NoRouter == [config |-> [basePath |-> <<>>, use |-> 0, onError |-> FALSE], declared |-> <<>>,
             server |-> {}]

----------------------------------------------------------------------------
(* handleRequest *)

Msg(text) == <<text>>
NotSupported(method) == <<"The HTTP method '", method, "' is not supported">>
NotAllowed(method) == <<"The HTTP method '", method, "' is not allowed">>
NoRouteFound(pathname) == <<"No route found for path: ", pathname>>

\* one stage of the pipeline that ran: which, which list entry, how it ended
Ev(stage, idx, out) == [stage |-> stage, idx |-> idx, out |-> out]

NoRequest == [method |-> "GET", url |-> [pathname |-> <<>>, search |-> "none"],
              contentType |-> ""]
NoEndpoint == [id |-> 0]

\* the slots of the context that a schema can validate, and what the
\* validator returned for each during this invocation
Slots == {"params", "body", "searchParams"}
NotRun == [ran |-> FALSE]
Ran(parsed) == [ran |-> TRUE, result |-> parsed]

Idle ==
    [pc |-> "idle", method |-> "GET", request |-> NoRequest, i |-> 0,
     global |-> Undefined, endpoint |-> NoEndpoint, params |-> NoParams,
     validated |-> [s \in Slots |-> NotRun], ctx |-> Undefined, handled |-> Undefined,
     error |-> NoError, swallowed |-> NoError, populated |-> Undefined, given |-> <<>>,
     trace |-> <<>>, response |-> Undefined]

\* the requests of the model
RequestMethods == {"GET", "POST", "DELETE", "FOO"}
RequestPathnames ==
    { <<"/", "s">>, <<"/", "p">>, <<"/", "n">>,
      <<"/", "u", "/", "x">>, <<"/", "g", "/", "x">>, <<"/", "g", "/", "%">>,
      <<"/", "g", "/", "%", "/", "x">>,
      <<"/", "a", "/", "s">>, <<"/", "a", "/", "u", "/", "x">> }
\* contentType is the request's Content-Type header, "" when it has none
Request(method, pathname, contentType) ==
    [method |-> method, url |-> [pathname |-> pathname, search |-> "query"],
     contentType |-> contentType]
Requests ==
    { Request(m, p, "") : m \in RequestMethods, p \in RequestPathnames }
    \cup { Request("POST", <<"/", "p">>, c) : c \in ContentTypes }
    \cup { Request("POST", <<"/", "u", "/", "x">>, c) : c \in {"application/json", "text/plain"} }
    \cup { Request("GET", <<"/", "s">>, c) : c \in {"application/json", "text/plain"} }

GlobalContext(request) == [kind |-> "GlobalContext", request |-> request]

\* context && context.request instanceof Request
IsGlobalContext(context) == context.kind = "GlobalContext"

\* executed instanceof Response
IsResponse(value) == value.kind = "Response"

Raise(error) == [inv EXCEPT !.pc = "error", !.error = error]

\* server[method](request): entry of handleRequest up to the global pipeline
HandleRequest(method, request) ==
    /\ inv.pc = "idle"
    /\ method \in router.server
    /\ LET fresh == [Idle EXCEPT !.method = method, !.request = request,
                                 !.trace = <<Ev("methodCheck", 0, "ran")>>]
       IN  inv' = IF ~isSupportedMethod(request.method)
                  THEN [fresh EXCEPT !.pc = "error",
                          !.error = RouterError("METHOD_NOT_ALLOWED", NotSupported(request.method))]
                  ELSE [fresh EXCEPT !.pc = IF router.config.use = 0 THEN "resolve" ELSE "global",
                                     !.i = 1,
                                     !.global = GlobalContext(request)]
    /\ UNCHANGED <<matcherVars, router, flightVars>>

\* what a global middleware can do with the context it is given
GlobalOutcomes(context, i) ==
    { [kind |-> "return", out |-> "next", value |-> context],
      [kind |-> "return", out |-> "respond",
       value |-> ResponseJson([from |-> "global", idx |-> i], 403)],
      [kind |-> "return", out |-> "invalid", value |-> Undefined],
      [kind |-> "throw", out |-> "throw", error |-> PlainError("global")],
      [kind |-> "throw", out |-> "throwOther", error |-> PlainError("stack of global")],
      [kind |-> "throw", out |-> "throwRouter",
       error |-> RouterError("UNAUTHORIZED", Msg("global"))] }
    \cup IF IsGlobalContext(context)
         THEN { [kind |-> "return", out |-> "rewrite",
                 value |-> GlobalContext([context.request EXCEPT !.method = m])] :
                    m \in (RequestMethods \cap supportedMethods) \ {context.request.method} }
         ELSE {}

\* AfterGlobal without the instanceof Response test
AfterGlobal_NoReturn(executed) == [return |-> FALSE, value |-> executed]

\* the body of the for loop of executeGlobalMiddlewares once the middleware
\* has settled: a Response ends the pipeline, anything else is the new context
AfterGlobal(executed) ==
    IF IsResponse(executed) THEN [return |-> TRUE, value |-> executed]
    ELSE [return |-> FALSE, value |-> executed]

\* the end of executeGlobalMiddlewares, after the loop
GlobalResult(context) ==
    IF ~IsGlobalContext(context)
    THEN Thrown(RouterError("BAD_REQUEST",
                            Msg("Global middleware must return a Request or Response object")))
    ELSE Returned(context)

\* NextGlobal that waits for a signal nobody sends once the list is through
NextGlobal_Stall(i) == IF i < router.config.use THEN "global" ELSE "stalled"

\* the for loop of executeGlobalMiddlewares goes on with the next entry, and
\* handleRequest goes on after the last
NextGlobal(i) == IF i < router.config.use THEN "global" ELSE "resolve"

\* one iteration of executeGlobalMiddlewares on an entry that is not a function
GlobalNotFunction ==
    /\ inv.pc = "global"
    /\ inv' = Raise(RouterError("BAD_REQUEST", Msg("Global middlewares must be functions")))
    /\ UNCHANGED <<matcherVars, router, flightVars>>

\* one iteration of executeGlobalMiddlewares: await middleware(context)
GlobalMiddleware ==
    /\ inv.pc = "global"
    /\ \E o \in GlobalOutcomes(inv.global, inv.i) :
         LET ran == [inv EXCEPT !.trace = Append(@, Ev("global", inv.i, o.out))]
         IN  inv' = IF o.kind = "throw"
                    THEN [ran EXCEPT !.pc = "error", !.error = o.error]
                    ELSE LET a == AfterGlobal(o.value)
                         IN  IF a.return
                             THEN [ran EXCEPT !.pc = "done", !.response = a.value]
                             ELSE [ran EXCEPT !.pc = NextGlobal(inv.i), !.i = @ + 1,
                                              !.global = a.value]
    /\ UNCHANGED <<matcherVars, router, flightVars>>

\* new URL(request.url).pathname for a path of letters, "/" and "%": unchanged
UrlPathname(url) == url.pathname

\* Unmatched with the status of a bad request
Unmatched_BadRequest(pathnameWithBase) ==
    RouterError("BAD_REQUEST", NoRouteFound(pathnameWithBase))

\* if (!node) throw new RouterError("NOT_FOUND", ...)
Unmatched(pathnameWithBase) ==
    RouterError("NOT_FOUND", NoRouteFound(pathnameWithBase))

\* MethodDiffers that trusts the method checked on entry
MethodDiffers_Never(request, method) == FALSE

\* globalRequestContext.request.method !== method
MethodDiffers(request, method) == request.method # method

\* from the end of the global pipeline to router.match
Resolve ==
    /\ inv.pc = "resolve"
    /\ LET g == IF router.config.use = 0 THEN Returned(inv.global)
                ELSE GlobalResult(inv.global)
       IN  inv' =
             IF g.kind = "throw" THEN Raise(g.error)
             ELSE LET request == g.value.request
                      pathnameWithBase == UrlPathname(request.url)
                  IN  IF MethodDiffers(request, inv.method)
                      THEN Raise(RouterError("METHOD_NOT_ALLOWED", NotAllowed(request.method)))
                      ELSE LET node == TrieMatch(trie, inv.method, pathnameWithBase)
                               ran == [inv EXCEPT !.trace = Append(@, Ev("match", 0, node.kind))]
                           IN  IF node.kind = "throw"
                               THEN [ran EXCEPT !.pc = "error", !.error = PlainError("URIError")]
                               ELSE IF node.kind = "null"
                               THEN [ran EXCEPT !.pc = "error",
                                                !.error = Unmatched(pathnameWithBase)]
                               ELSE [ran EXCEPT !.pc = "params", !.endpoint = node.endpoint,
                                                !.params = node.params]
    /\ trie' = IF inv'.trace # inv.trace
               THEN AfterMatch(trie, inv.method, UrlPathname(inv.global.request.url))
               ELSE trie
    /\ UNCHANGED <<registered, calls, last, router, flightVars>>

NotParsed == [success |-> TRUE, data |-> Undefined]
ParseChoices(config, slot, input) ==
    IF HasSchema(config, slot) THEN SafeParseResults(input) ELSE {NotParsed}

\* const dynamicParams = getRouteParams(params, endpoint.config)
Params ==
    /\ inv.pc = "params"
    /\ \E parsed \in ParseChoices(inv.endpoint.config, "params", inv.params) :
         LET r == getRouteParams(inv.params, inv.endpoint.config, parsed)
             ran == [inv EXCEPT !.trace = Append(@, Ev("params", 0, r.kind)),
                                !.validated["params"] =
                                    IF HasSchema(inv.endpoint.config, "params")
                                    THEN Ran(parsed) ELSE @]
         IN  inv' = IF r.kind = "throw" THEN [ran EXCEPT !.pc = "error", !.error = r.error]
                    ELSE [ran EXCEPT !.pc = "body", !.ctx = [kind |-> "partial", params |-> r.value]]
    /\ UNCHANGED <<matcherVars, router, flightVars>>

\* const body = await getBody(globalRequestContext.request, endpoint.config)
Body ==
    /\ inv.pc = "body"
    /\ \E decodes \in IF isSupportedBodyMethod(inv.global.request.method)
                      THEN BOOLEAN ELSE {TRUE} :
         \E parsed \in IF decodes /\ isSupportedBodyMethod(inv.global.request.method)
                       THEN ParseChoices(inv.endpoint.config, "body", Decoded("json"))
                       ELSE {NotParsed} :
           LET r == getBody(inv.global.request, inv.endpoint.config, decodes, parsed)
               ran == [inv EXCEPT !.trace = Append(@, Ev("body", 0, r.kind)),
                                  !.validated["body"] =
                                      IF /\ HasSchema(inv.endpoint.config, "body")
                                         /\ isSupportedBodyMethod(inv.global.request.method)
                                         /\ decodes
                                      THEN Ran(parsed) ELSE @]
           IN  inv' = IF r.kind = "throw" THEN [ran EXCEPT !.pc = "error", !.error = r.error]
                      ELSE [ran EXCEPT !.pc = "query",
                                       !.ctx = [kind |-> "partial", params |-> inv.ctx.params,
                                                body |-> r.value]]
    /\ UNCHANGED <<matcherVars, router, flightVars>>

\* new RequestContext: the object literal built in handleRequest
RequestContext(params, searchParams, body, request, route) ==
    [kind |-> "RequestContext", params |-> params, searchParams |-> searchParams,
     body |-> body, method |-> request.method, route |-> route, marks |-> {}]

\* getSearchParams, the headers and the context object, up to the entry of
\* executeMiddlewares
Query ==
    /\ inv.pc = "query"
    /\ \E parsed \in ParseChoices(inv.endpoint.config, "searchParams",
                                  PlainQuery(inv.global.request.url.search)) :
         LET r == getSearchParams(inv.global.request.url, inv.endpoint.config, parsed)
             ran == [inv EXCEPT !.trace = Append(@, Ev("query", 0, r.kind)),
                                !.validated["searchParams"] =
                                    IF HasSchema(inv.endpoint.config, "searchParams")
                                    THEN Ran(parsed) ELSE @]
         IN  inv' = IF r.kind = "throw" THEN [ran EXCEPT !.pc = "error", !.error = r.error]
                    ELSE [ran EXCEPT !.pc = IF inv.endpoint.config.use = 0 THEN "handler"
                                            ELSE "use",
                                     !.i = 1,
                                     !.ctx = RequestContext(inv.ctx.params, r.value,
                                                            inv.ctx.body, inv.global.request,
                                                            inv.endpoint.route),
                                     !.populated = RequestContext(inv.ctx.params, r.value,
                                                                  inv.ctx.body,
                                                                  inv.global.request,
                                                                  inv.endpoint.route)]
    /\ UNCHANGED <<matcherVars, router, flightVars>>

\* what a per-endpoint middleware can do with the context it is given
UseOutcomes(ctx, j) ==
    { [kind |-> "return", out |-> "next", value |-> ctx],
      [kind |-> "return", out |-> "respond",
       value |-> ResponseJson([from |-> "use", idx |-> j], 401)],
      [kind |-> "return", out |-> "undefined", value |-> Undefined],
      [kind |-> "throw", out |-> "throw", error |-> PlainError("use")],
      [kind |-> "throw", out |-> "throwRouter",
       error |-> RouterError("FORBIDDEN", Msg("use"))],
      [kind |-> "throw", out |-> "throwZod",
       error |-> InvalidZodSchemaError("UNPROCESSABLE_ENTITY", <<>>)] }
    \cup IF ctx.kind = "RequestContext"
         THEN { [kind |-> "return", out |-> "mutate",
                 value |-> [ctx EXCEPT !.marks = @ \cup {j}]] }
         ELSE {}

\* AfterUse that drops what the middleware returned
AfterUse_Discard(executed) == [return |-> FALSE, value |-> Undefined]

\* ctx = await middleware(ctx): whatever the middleware returned is the new context
AfterUse(executed) == [return |-> FALSE, value |-> executed]

\* UseCatch that rethrows what it caught
UseCatch_Rethrow(error) == error

\* the catch of executeMiddlewares
UseCatch(error) == RouterError("BAD_REQUEST", Msg("Handler threw an error"))

\* NextUse that leaves the loop after the first middleware
NextUse_Handler(j) == "handler"

NextUse(j) == IF j < inv.endpoint.config.use THEN "use" ELSE "handler"

\* one iteration of executeMiddlewares on an entry that is not a function
UseNotFunction ==
    /\ inv.pc = "use"
    /\ LET thrown == RouterError("BAD_REQUEST", Msg("Middleware must be a function"))
       IN  inv' = [inv EXCEPT !.pc = "error", !.error = UseCatch(thrown),
                              !.swallowed = thrown]
    /\ UNCHANGED <<matcherVars, router, flightVars>>

\* one iteration of executeMiddlewares: ctx = await middleware(ctx)
Use ==
    /\ inv.pc = "use"
    /\ \E o \in UseOutcomes(inv.ctx, inv.i) :
         LET ran == [inv EXCEPT !.trace = Append(@, Ev("use", inv.i, o.out)),
                                !.given = Append(@, [idx |-> inv.i, in |-> inv.ctx,
                                                     out |-> IF o.kind = "return" THEN o.value
                                                             ELSE Undefined])]
         IN  inv' = IF o.kind = "throw"
                    THEN [ran EXCEPT !.pc = "error", !.error = UseCatch(o.error),
                                     !.swallowed = o.error]
                    ELSE LET a == AfterUse(o.value)
                         IN  IF a.return
                             THEN [ran EXCEPT !.pc = "done", !.response = a.value]
                             ELSE [ran EXCEPT !.pc = NextUse(inv.i), !.i = @ + 1,
                                              !.ctx = a.value]
    /\ UNCHANGED <<matcherVars, router, flightVars>>

\* what the handler can do with the context it is given
HandlerOutcomes(ctx) ==
    { [kind |-> "return", out |-> "return",
       value |-> ResponseJson([from |-> "handler", ctx |-> ctx], 200)],
      [kind |-> "throw", out |-> "throw", error |-> PlainError("handler")],
      [kind |-> "throw", out |-> "throwOther", error |-> PlainError("stack of handler")],
      [kind |-> "throw", out |-> "throwRouter",
       error |-> RouterError("FORBIDDEN", Msg("handler"))] }

\* const response = await endpoint.handler(context); return response
Handler ==
    /\ inv.pc = "handler"
    /\ \E o \in HandlerOutcomes(inv.ctx) :
         LET ran == [inv EXCEPT !.trace = Append(@, Ev("handler", 0, o.out)),
                                !.handled = inv.ctx]
         IN  inv' = IF o.kind = "throw" THEN [ran EXCEPT !.pc = "error", !.error = o.error]
                    ELSE [ran EXCEPT !.pc = "done", !.response = o.value]
    /\ UNCHANGED <<matcherVars, router, flightVars>>

CriticalFailure ==
    ResponseJson([message |-> Msg("A critical failure occurred during error handling")], 500)

\* DefaultTranslation that answers an unclassified error with its own message
DefaultTranslation_ExposeMessage(error) ==
    IF isInvalidZodSchemaError(error)
    THEN ResponseJson([message |-> Msg("Invalid request data"), error |-> "validation_error",
                       details |-> error.errors], error.status)
    ELSE IF isRouterError(error)
    THEN ResponseJson([message |-> error.message], error.status)
    ELSE ResponseJson([message |-> Msg(error.message)], 500)

\* the default translations of onError, without a hook
DefaultTranslation(error) ==
    IF isInvalidZodSchemaError(error)
    THEN ResponseJson([message |-> Msg("Invalid request data"), error |-> "validation_error",
                       details |-> error.errors], error.status)
    ELSE IF isRouterError(error)
    THEN ResponseJson([message |-> error.message], error.status)
    ELSE ResponseJson([message |-> Msg("Internal Server Error")], 500)

\* what the configured onError hook can do with the error it is given
HookOutcomes(error) ==
    { [kind |-> "return", out |-> "return",
       value |-> ResponseJson([from |-> "onError", error |-> error], 599)],
      [kind |-> "throw", out |-> "throw"] }

\* onError whose call of the hook is not inside a try: what the hook throws
\* leaves handleRequest and the caller gets no response
onError_HookUncaught(error, config, hook) ==
    IF config.onError
    THEN IF hook.kind = "return" THEN hook.value ELSE Undefined
    ELSE DefaultTranslation(error)

\* onError that looks at the hook only after the default translations of the
\* router's own errors
onError_DefaultsFirst(error, config, hook) ==
    IF isInvalidZodSchemaError(error) \/ isRouterError(error) THEN DefaultTranslation(error)
    ELSE IF config.onError
    THEN IF hook.kind = "return" THEN hook.value ELSE CriticalFailure
    ELSE DefaultTranslation(error)

\* onError(error, request, config)
onError(error, config, hook) ==
    IF config.onError
    THEN IF hook.kind = "return" THEN hook.value ELSE CriticalFailure
    ELSE DefaultTranslation(error)

\* catch (error) { return onError(error, request, config) }
OnError ==
    /\ inv.pc = "error"
    /\ \E hook \in IF router.config.onError THEN HookOutcomes(inv.error)
                   ELSE { [kind |-> "none", out |-> "default"] } :
         inv' = [inv EXCEPT !.pc = "done",
                            !.trace = Append(@, Ev("onError", 0, hook.out)),
                            !.response = onError(inv.error, router.config, hook)]
    /\ UNCHANGED <<matcherVars, router, flightVars>>

\* handleRequest has returned: the caller has the response and the
\* invocation's contexts are dropped
Return ==
    /\ inv.pc = "done"
    /\ inv' = Idle
    /\ UNCHANGED <<matcherVars, router, flightVars>>

----------------------------------------------------------------------------
(* createEndpoint *)

\* the characters of the route strings of the model: "a" and "-" stand for
\* the class [a-zA-Z0-9_-], "*" for a character outside the class of isValidRoute
RouteChars == {"/", ":", "a", "-", "*"}

\* the characters that the class [a-zA-Z0-9/_:-] of isValidRoute admits
RouteClass == {"/", ":", "a", "-"}

Routes == UNION { [1..n -> RouteChars] : n \in 0..MaxRouteLen }

\* /^\/[a-zA-Z0-9/_:-]*$/.test(route)
isValidRoute(route) ==
    /\ Len(route) >= 1
    /\ route[1] = "/"
    /\ \A k \in 2..Len(route) : route[k] \in RouteClass

\* typeof handler === "function"
Handlers == {"function", "undefined"}
isValidHandler(handler) == handler = "function"

EndpointMethodInputs == {"GET", "FETCH"}

\* createEndpoint(method, route, handler, config)
createEndpoint(method, route, handler) ==
    IF ~isSupportedMethod(method)
    THEN Thrown(RouterError("METHOD_NOT_ALLOWED", <<"Unsupported HTTP method: ", method>>))
    ELSE IF ~isValidRoute(route)
    THEN Thrown(RouterError("BAD_REQUEST", <<"Invalid route format: ", route>>))
    ELSE IF ~isValidHandler(handler)
    THEN Thrown(RouterError("BAD_REQUEST", Msg("Handler must be a function")))
    ELSE Returned([method |-> method, route |-> route, handler |-> handler])

\* one call of createEndpoint; it reads and changes no state, so a behaviour
\* makes a single call
CreateEndpoint(method, route, handler) ==
    /\ last = NoCall
    /\ last' = [op |-> "createEndpoint", method |-> method, route |-> route,
                handler |-> handler, result |-> createEndpoint(method, route, handler)]
    /\ UNCHANGED <<trie, registered, calls, router, inv, flightVars>>

----------------------------------------------------------------------------
(* Several invocations of handleRequest in flight: which objects each holds *)

Flights == 1..MaxFlights

\* an object is named by the invocation that created it and the expression
\* that created it; owner 0 is an object that outlives the invocations
Obj(f, site) == [owner |-> f, site |-> site]
NoObject == Obj(0, "none")
ConfigContext == Obj(0, "config.context")

\* config.context ?? ({} as GlobalContext): the configured object, or an
\* object literal evaluated by this invocation at this place
ConfigContextOr(f, site) ==
    IF router.config.context THEN ConfigContext ELSE Obj(f, site)

\* const globalContext = { request, context: config.context ?? {} }
NewGlobalContext(f) ==
    [self |-> Obj(f, "globalContext"), request |-> Obj(f, "request"),
     context |-> ConfigContextOr(f, "globalContext.context")]

\* MatchParams that hands out one shared empty object for static hits
MatchParams_SharedEmpty(f, static) ==
    IF static THEN Obj(0, "EMPTY_PARAMS") ELSE Obj(f, "params")

\* the params object of match's result: the literal `params: {}` of a static
\* hit or the `const params = {}` of the walk, both evaluated per call
MatchParams(f, static) ==
    IF static THEN Obj(f, "params: {}") ELSE Obj(f, "params")

\* ContextField that takes the context of the pair the global pipeline returned
ContextField_FromPair(f, pair) == pair.context

\* context: config.context ?? ({} as GlobalContext), in the context literal
ContextField(f, pair) == ConfigContextOr(f, "context")

\* the context literal of handleRequest: the objects its fields refer to
NewRequestContext(f, pair, params) ==
    [self |-> Obj(f, "context literal"), params |-> params,
     searchParams |-> Obj(f, "searchParams"), headers |-> Obj(f, "headers"),
     body |-> Obj(f, "body"), request |-> pair.request, url |-> Obj(f, "url"),
     context |-> ContextField(f, pair)]

NoPair == [self |-> NoObject, request |-> NoObject, context |-> NoObject]
NoContext ==
    [self |-> NoObject, params |-> NoObject, searchParams |-> NoObject, headers |-> NoObject,
     body |-> NoObject, request |-> NoObject, url |-> NoObject, context |-> NoObject]
NoFlight == [pc |-> "idle", pair |-> NoPair, params |-> NoObject, ctx |-> NoContext]
NoFlights == [f \in Flights |-> NoFlight]

\* the fields of the Request Context that a middleware can write to in place
Writable == {"params", "searchParams", "body", "headers", "context"}

\* server[method](request) up to the call of executeGlobalMiddlewares
FlightStart(f) ==
    /\ flights[f].pc = "idle"
    /\ flights' = [flights EXCEPT ![f].pc = "global", ![f].pair = NewGlobalContext(f)]
    /\ UNCHANGED <<matcherVars, router, inv, heap>>

\* a global middleware: hands the pair on, writes to its context in place, or
\* returns a replacement pair with a context object of its own
FlightGlobal(f, act) ==
    /\ flights[f].pc = "global"
    /\ flights' = [flights EXCEPT
                     ![f].pc = "resolve",
                     ![f].pair = IF act = "replace"
                                 THEN [self |-> Obj(f, "replacement"),
                                       request |-> flights[f].pair.request,
                                       context |-> Obj(f, "replacement.context")]
                                 ELSE @]
    /\ heap' = IF act = "mutate"
               THEN heap \cup {<<flights[f].pair.context, f, "global">>}
               ELSE heap
    /\ UNCHANGED <<matcherVars, router, inv>>

\* const { endpoint, params } = router.match(...): a static or a dynamic hit
FlightResolve(f, static) ==
    /\ flights[f].pc = "resolve"
    /\ flights' = [flights EXCEPT ![f].pc = "populate",
                                  ![f].params = MatchParams(f, static)]
    /\ UNCHANGED <<matcherVars, router, inv, heap>>

\* extraction and the context literal, up to the call of executeMiddlewares
FlightPopulate(f) ==
    /\ flights[f].pc = "populate"
    /\ flights' = [flights EXCEPT
                     ![f].pc = "use",
                     ![f].ctx = NewRequestContext(f, flights[f].pair, flights[f].params)]
    /\ UNCHANGED <<matcherVars, router, inv, heap>>

\* a per-endpoint middleware that writes to a field of its context in place
\* and returns the context
FlightUse(f, field) ==
    /\ flights[f].pc = "use"
    /\ flights' = [flights EXCEPT ![f].pc = "handler"]
    /\ heap' = heap \cup {<<flights[f].ctx[field], f, "use">>}
    /\ UNCHANGED <<matcherVars, router, inv>>

\* the handler returns and handleRequest with it: the invocation's objects
\* are dropped, the objects that outlive it keep what was written to them
FlightReturn(f) ==
    /\ flights[f].pc \in {"use", "handler"}
    /\ flights' = [flights EXCEPT ![f] = NoFlight]
    /\ heap' = { w \in heap : w[1].owner # f }
    /\ UNCHANGED <<matcherVars, router, inv>>

----------------------------------------------------------------------------
(* Specifications *)

Init ==
    /\ MatcherInit
    /\ router = NoRouter
    /\ inv = Idle
    /\ flights = NoFlights
    /\ heap = {}

Next ==
    \/ \E d \in Declarations : Add(d)
    \/ \E method \in Methods, pathname \in Pathnames : Match(method, pathname)

vars == <<trie, registered, calls, last, router, inv, flights, heap>>

\* the matcher on its own: any sequence of add and match calls
Spec == Init /\ [][Next]_vars

\* a router built by createRouter, serving requests one after the other
InitRouter ==
    \E basePath \in BasePaths, use \in 0..MaxGlobal, hook \in BOOLEAN,
       schemas \in SchemaChoices :
      \E endpoints \in EndpointLists(schemas) :
        LET r == createRouter(endpoints,
                              [basePath |-> basePath, use |-> use, onError |-> hook])
        IN  /\ r.error = NoError
            /\ trie = r.trie
            /\ registered = r.registered
            /\ calls = Len(r.registered)
            /\ last = NoCall
            /\ router = [config |-> r.config, declared |-> r.declared, server |-> r.server]
            /\ inv = Idle
            /\ flights = NoFlights
            /\ heap = {}

NextRouter ==
    \/ \E method \in supportedMethods, request \in Requests : HandleRequest(method, request)
    \/ GlobalNotFunction
    \/ GlobalMiddleware
    \/ Resolve
    \/ Params
    \/ Body
    \/ Query
    \/ UseNotFunction
    \/ Use
    \/ Handler
    \/ OnError
    \/ Return

SpecRouter == InitRouter /\ [][NextRouter]_vars

\* createEndpoint called on any method, route string and handler
NextEndpoint ==
    \E method \in EndpointMethodInputs, route \in Routes, handler \in Handlers :
        CreateEndpoint(method, route, handler)

SpecEndpoint == Init /\ [][NextEndpoint]_vars

\* a router with or without a configured `context`, serving several requests
\* at once
InitFlights ==
    \E configured \in BOOLEAN :
        /\ MatcherInit
        /\ router = [config |-> [basePath |-> <<>>, use |-> 1, onError |-> FALSE,
                                 context |-> configured],
                     declared |-> <<>>, server |-> {}]
        /\ inv = Idle
        /\ flights = NoFlights
        /\ heap = {}

NextFlights ==
    \E f \in Flights :
        \/ FlightStart(f)
        \/ \E act \in {"pass", "mutate", "replace"} : FlightGlobal(f, act)
        \/ \E static \in BOOLEAN : FlightResolve(f, static)
        \/ FlightPopulate(f)
        \/ \E field \in Writable : FlightUse(f, field)
        \/ FlightReturn(f)

SpecFlights == InitFlights /\ [][NextFlights]_vars

----------------------------------------------------------------------------
(* Vocabulary of the properties *)

\* String.prototype.split("/")
RECURSIVE SplitSlash(_)
SplitSlash(s) ==
    LET at == IndexOf(s, "/", 0)
    IN  IF at = -1 THEN <<s>>
        ELSE <<Slice(s, 0, at)>> \o SplitSlash(Slice(s, at + 1, Len(s)))

RECURSIVE JoinSlash(_)
JoinSlash(pieces) ==
    IF Len(pieces) = 1 THEN pieces[1]
    ELSE pieces[1] \o <<"/">> \o JoinSlash(Tail(pieces))

IsParamSegment(seg) == seg # <<>> /\ seg[1] = ":"
NonEmpty(seg) == seg # <<>>

\* the non-empty segments of a route pattern, in order
SegmentsOf(route) == SelectSeq(SplitSlash(route), NonEmpty)

IsDynamic(e) == Includes(e.route, ":")
Declares(e, method) == method \in Range(e.method)
Registered == Range(registered)

ParamNames(route) ==
    { Tail(seg) : seg \in { x \in Range(SplitSlash(route)) : IsParamSegment(x) } }

\* the path obtained from a pattern by substituting sub[name] for each :name
Substitute(route, sub) ==
    LET pieces == SplitSlash(route)
    IN  JoinSlash([k \in 1..Len(pieces) |->
                     IF IsParamSegment(pieces[k]) THEN sub[Tail(pieces[k])] ELSE pieces[k]])

Substitutions(route) == [ParamNames(route) -> Pieces]

DecodedSubstitution(route, sub) ==
    [n \in ParamNames(route) |-> decodeURIComponent(sub[n]).value]

\* the trie position a pattern leads to after its first k segments
NodeKey(seg) == IF IsParamSegment(seg) THEN ParamKey ELSE seg
NodePath(segs, k) == [j \in 1..k |-> NodeKey(segs[j])]
TerminalOf(route) == NodePath(SegmentsOf(route), Len(SegmentsOf(route)))

\* the endpoint registered last among those satisfying P
LastRegistered(P(_)) ==
    registered[CHOOSE k \in 1..Len(registered) :
                   /\ P(registered[k])
                   /\ \A j \in (k + 1)..Len(registered) : ~P(registered[j])]

----------------------------------------------------------------------------
(* C1: dynamic routes *)

\* the substitution sends every name to a non-empty, well-formed percent-encoding
WellFormed(route, sub) ==
    \A n \in ParamNames(route) : sub[n] # <<>> /\ decodeURIComponent(sub[n]).ok

\* a registered static route is exactly this path, for this method
ShadowedByStatic(method, pathname) ==
    \E s \in Registered : ~IsDynamic(s) /\ Declares(s, method) /\ s.route = pathname

\* a registered dynamic route has a literal segment equal to a substituted
\* value, at the same position and after the same trie position
ShadowedByLiteral(route, sub) ==
    LET segs == SegmentsOf(route)
    IN  \E d \in Registered, k \in 1..Len(segs) :
            /\ IsDynamic(d)
            /\ IsParamSegment(segs[k])
            /\ k <= Len(SegmentsOf(d.route))
            /\ NodePath(SegmentsOf(d.route), k - 1) = NodePath(segs, k - 1)
            /\ SegmentsOf(d.route)[k] = sub[Tail(segs[k])]

\* C1 as stated: for every registered dynamic route and whatever else is
\* registered, match on any substitution instance of the pattern returns that
\* route's endpoint and the percent-decoded substitutions (read for
\* substitutions that are non-empty and well-formed percent-encodings).
C1_AnySubstitutionMatches ==
    last.op = "match" =>
        \A e \in Registered :
            (IsDynamic(e) /\ Declares(e, last.method)) =>
                \A sub \in Substitutions(e.route) :
                    (last.pathname = Substitute(e.route, sub) /\ WellFormed(e.route, sub)) =>
                        /\ last.result.kind = "found"
                        /\ last.result.endpoint = e
                        /\ last.result.params = DecodedSubstitution(e.route, sub)

\* C1, amended: match on a substitution instance of a registered dynamic
\* route returns the endpoint registered last for that method at the same trie
\* position, with every name bound to the percent-decoded substitution,
\* provided each substitution is a non-empty well-formed percent-encoding, no
\* static route is registered for (method, path), and no registered dynamic
\* route has a literal segment equal to a substituted value at that position.
C1_DynamicMatch ==
    last.op = "match" =>
        \A e \in Registered :
            (IsDynamic(e) /\ Declares(e, last.method)) =>
                \A sub \in Substitutions(e.route) :
                    ( /\ last.pathname = Substitute(e.route, sub)
                      /\ WellFormed(e.route, sub)
                      /\ ~ShadowedByStatic(last.method, last.pathname)
                      /\ ~ShadowedByLiteral(e.route, sub) ) =>
                        LET SameTerminal(r) == /\ IsDynamic(r)
                                               /\ Declares(r, last.method)
                                               /\ TerminalOf(r.route) = TerminalOf(e.route)
                        IN  /\ last.result.kind = "found"
                            /\ last.result.endpoint = LastRegistered(SameTerminal)
                            /\ last.result.params = DecodedSubstitution(e.route, sub)

\* a dynamic route matched on a percent-encoded substitution while a static
\* route is registered too
C1_Witness ==
    /\ last.op = "match"
    /\ last.result.kind = "found"
    /\ IsDynamic(last.result.endpoint)
    /\ last.pathname = <<"/", "u", "/", "%", "2", "0">>
    /\ last.result.params = (<<"i">> :> <<" ">>)
    /\ \E s \in Registered : ~IsDynamic(s)

----------------------------------------------------------------------------
(* C2: static routes *)

\* C2: match(method, exact pattern) of a registered static route returns the
\* endpoint registered (last) for that method and pattern with an empty
\* parameter map, whatever else is registered.
C2_StaticMatch ==
    last.op = "match" =>
        \A e \in Registered :
            (~IsDynamic(e) /\ Declares(e, last.method) /\ e.route = last.pathname) =>
                LET SameStatic(r) == /\ ~IsDynamic(r)
                                     /\ Declares(r, last.method)
                                     /\ r.route = last.pathname
                IN  /\ last.result.kind = "found"
                    /\ last.result.endpoint = LastRegistered(SameStatic)
                    /\ last.result.params = NoParams

\* a static route matched by its second method while a dynamic route is
\* registered too
C2_Witness ==
    /\ last.op = "match"
    /\ last.method = "POST"
    /\ last.result.kind = "found"
    /\ ~IsDynamic(last.result.endpoint)
    /\ last.result.endpoint.route = last.pathname
    /\ \E d \in Registered : IsDynamic(d)

----------------------------------------------------------------------------
(* C3: duplicate registrations *)

\* C3: an add() for a method and pattern that an earlier registration already
\* holds raises an error; it never replaces the first endpoint.
C3_DuplicateRejected ==
    ( /\ last.op = "add"
      /\ \E r \in Registered :
            /\ r.id # last.endpoint.id
            /\ r.route = last.endpoint.route
            /\ Range(r.method) \cap Range(last.endpoint.method) # {} ) =>
        /\ last.error.kind = "RouterError"
        /\ last.endpoint \notin Registered

----------------------------------------------------------------------------
(* C4: one parameter name per trie position *)

\* the positions of a pattern whose :name differs from the name of the
\* parameter child that the trie has there
ConflictsAt(route) ==
    LET segs == SegmentsOf(route)
    IN  { k \in 1..Len(segs) :
            /\ IsParamSegment(segs[k])
            /\ NodePath(segs, k - 1) \in DOMAIN trie.nodes
            /\ trie.nodes[NodePath(segs, k - 1)].param # Undefined
            /\ trie.nodes[NodePath(segs, k - 1)].param.name # Tail(segs[k]) }

\* C4: every registered dynamic route finds, at each of its :name positions,
\* a parameter child carrying exactly that name, so a node has one parameter
\* name for all registrations through it whatever their methods; and an add()
\* whose pattern names a parameter differently from the existing parameter
\* child fails with the conflict error that quotes both names.
C4_OneParamName ==
    /\ \A e \in Registered :
          IsDynamic(e) =>
              LET segs == SegmentsOf(e.route)
              IN  \A k \in 1..Len(segs) :
                      IsParamSegment(segs[k]) =>
                          /\ NodePath(segs, k) \in DOMAIN trie.nodes
                          /\ trie.nodes[NodePath(segs, k - 1)].param = [name |-> Tail(segs[k])]
    /\ (last.op = "add" /\ IsDynamic(last.endpoint) /\ ConflictsAt(last.endpoint.route) # {}) =>
          LET segs == SegmentsOf(last.endpoint.route)
              k == CHOOSE c \in ConflictsAt(last.endpoint.route) :
                       \A d \in ConflictsAt(last.endpoint.route) : c <= d
          IN  /\ last.error = ConflictError(trie.nodes[NodePath(segs, k - 1)].param.name,
                                            Tail(segs[k]))
              /\ last.endpoint \notin Registered

\* an add() was refused because of a differently named parameter
C4_Witness ==
    /\ last.op = "add"
    /\ last.error = ConflictError(<<"i">>, <<"j">>)
    /\ \E e \in Registered : e.route = <<"/", "u", "/", ":", "i">>

----------------------------------------------------------------------------
(* Vocabulary of the pipeline properties *)

Done == inv.pc = "done"
Events(stage) == { k \in 1..Len(inv.trace) : inv.trace[k].stage = stage }
Invoked(stage) == Events(stage) # {}

\* no onError hook, and every entry of the global `use` list is a function
\* that ran and handed its context on
DefaultHandling ==
    /\ ~router.config.onError
    /\ Cardinality(Events("global")) = router.config.use
    /\ \A k \in Events("global") : inv.trace[k].out = "next"

\* the pattern accepts the path: same number of non-empty segments, each
\* literal segment equal, each :name segment taking any segment
Accepts(route, pathname) ==
    LET segs == SegmentsOf(route)
        path == SegmentsOf(pathname)
    IN  /\ Len(segs) = Len(path)
        /\ \A k \in 1..Len(segs) : IsParamSegment(segs[k]) \/ segs[k] = path[k]

RegisteredFor(method, pathname) ==
    \E e \in Registered : Declares(e, method) /\ Accepts(e.route, pathname)

HasRoute(pathname) == \E e \in Registered : Accepts(e.route, pathname)

WellEncoded(pathname) ==
    \A k \in 1..Len(SegmentsOf(pathname)) : decodeURIComponent(SegmentsOf(pathname)[k]).ok

----------------------------------------------------------------------------
(* C5: unknown path *)

\* C5 as stated: a request whose path has no registered route, sent with any
\* method to any exposed handler, is answered 404 "No route found for path:
\* <pathname>" (read with the default error handling and global middleware
\* that pass the request on).
C5_AnyMethodNotFound ==
    (Done /\ DefaultHandling /\ ~HasRoute(inv.request.url.pathname)) =>
        inv.response = ResponseJson([message |-> NoRouteFound(inv.request.url.pathname)], 404)

\* C5, amended: a request whose path has no registered route and whose
\* method is the one the invoked handler is bound to is answered 404 "No route
\* found for path: <pathname>", when the segments of the path are well-formed
\* percent-encodings (default error handling, global middleware passing the
\* request on).
C5_NotFound ==
    ( /\ Done
      /\ DefaultHandling
      /\ ~HasRoute(inv.request.url.pathname)
      /\ inv.request.method = inv.method
      /\ WellEncoded(inv.request.url.pathname) ) =>
        inv.response = ResponseJson([message |-> NoRouteFound(inv.request.url.pathname)], 404)

\* an unknown path was answered 404 after a global middleware had run
C5_Witness ==
    /\ Done
    /\ DefaultHandling
    /\ Invoked("global")
    /\ ~HasRoute(inv.request.url.pathname)
    /\ inv.request.method = inv.method
    /\ inv.response.status = 404

----------------------------------------------------------------------------
(* C6: known path, other method *)

\* C6: a request to a path registered for some method but not for the
\* request's (supported) method M is answered 405 "The HTTP method 'M' is not
\* allowed", never 404, whichever exposed handler receives it.
C6_MethodNotAllowed ==
    ( /\ Done
      /\ DefaultHandling
      /\ isSupportedMethod(inv.request.method)
      /\ HasRoute(inv.request.url.pathname)
      /\ WellEncoded(inv.request.url.pathname)
      /\ ~RegisteredFor(inv.request.method, inv.request.url.pathname) ) =>
        inv.response = ResponseJson([message |-> NotAllowed(inv.request.method)], 405)

----------------------------------------------------------------------------
(* C7: schema validation *)

FailingPaths(parsed) == { i.path : i \in Range(parsed.error.issues) }

\* the details map has one entry per failing field, under its dotted path,
\* made of the code and message of an issue of that field
DetailsOf(details, parsed) ==
    /\ DOMAIN details = { JoinDot(path) : path \in FailingPaths(parsed) }
    /\ Cardinality(DOMAIN details) = Cardinality(FailingPaths(parsed))
    /\ \A path \in FailingPaths(parsed) :
          \E i \in Range(parsed.error.issues) :
              /\ i.path = path
              /\ details[JoinDot(path)] = [code |-> i.code, message |-> i.message]

\* C7: for each slot whose validator ran: if it accepted, the context the
\* handler receives holds the validator's output in that slot; if it rejected,
\* no per-endpoint middleware and no handler is invoked and the response is
\* 422 { message: "Invalid request data", error: "validation_error", details }
\* with one details entry per failing field.
C7_Validation ==
    \A slot \in Slots :
        inv.validated[slot].ran =>
            LET parsed == inv.validated[slot].result
            IN  IF parsed.success
                THEN (Invoked("handler") /\ inv.handled.kind = "RequestContext") =>
                         inv.handled[slot] = parsed.data
                ELSE /\ ~Invoked("handler")
                     /\ ~Invoked("use")
                     /\ inv.pc \in {"error", "done"}
                     /\ (Done /\ ~router.config.onError) =>
                           /\ inv.response.status = 422
                           /\ inv.response.body.message = Msg("Invalid request data")
                           /\ inv.response.body.error = "validation_error"
                           /\ DetailsOf(inv.response.body.details, parsed)

\* the body validator rejected two fields after the params validator had
\* accepted, and the 422 response was produced
C7_Witness ==
    /\ Done
    /\ inv.validated["params"].ran
    /\ inv.validated["params"].result.success
    /\ inv.validated["body"].ran
    /\ ~inv.validated["body"].result.success
    /\ Cardinality(FailingPaths(inv.validated["body"].result)) = 2
    /\ inv.response.status = 422

----------------------------------------------------------------------------
(* C8, C9: a middleware that returns a Response *)

\* the Response that the middleware of event k returned is the result of the
\* request and nothing ran after it
ShortCircuits(k, response) ==
    /\ k = Len(inv.trace)
    /\ Done
    /\ inv.response = response

\* C8: once a global middleware has returned a Response, nothing else runs
\* (no further global middleware, no matching, extraction, per-endpoint
\* middleware, handler or error translation) and that Response is returned.
C8_GlobalShortCircuit ==
    \A k \in Events("global") :
        inv.trace[k].out = "respond" =>
            ShortCircuits(k, ResponseJson([from |-> "global", idx |-> inv.trace[k].idx], 403))

\* the first of several global middleware returned a Response
C8_Witness ==
    /\ Done
    /\ router.config.use >= 2
    /\ inv.trace[Len(inv.trace)] = Ev("global", 1, "respond")
    /\ inv.response.status = 403

\* C9: once a per-endpoint middleware has returned a Response, no later
\* per-endpoint middleware and no handler runs and that Response is returned.
C9_UseShortCircuit ==
    \A k \in Events("use") :
        inv.trace[k].out = "respond" =>
            /\ \A later \in (k + 1)..Len(inv.trace) :
                  inv.trace[later].stage \notin {"use", "handler"}
            /\ Done => inv.response = ResponseJson([from |-> "use",
                                                    idx |-> inv.trace[k].idx], 401)

----------------------------------------------------------------------------
(* C10: exceptions in the per-endpoint pipeline *)

HandlerThrew == RouterError("BAD_REQUEST", Msg("Handler threw an error"))

\* C10: whatever is thrown while the per-endpoint pipeline runs, the error
\* that leaves it is the one RouterError BAD_REQUEST "Handler threw an error":
\* that is what the error translation and the onError hook get, and the
\* handler is not invoked.
C10_UseErrorsCollapsed ==
    inv.swallowed # NoError =>
        /\ inv.error = HandlerThrew
        /\ ~Invoked("handler")
        /\ inv.pc \in {"error", "done"}
        /\ Done =>
              IF ~router.config.onError
              THEN inv.response = ResponseJson([message |-> HandlerThrew.message], 400)
              ELSE \/ inv.response = CriticalFailure
                   \/ inv.response.body.error = HandlerThrew

\* a validation error thrown by the second per-endpoint middleware was
\* answered 400
C10_Witness ==
    /\ Done
    /\ inv.swallowed.kind = "InvalidZodSchemaError"
    /\ inv.trace[Len(inv.trace) - 1] = Ev("use", 2, "throwZod")
    /\ inv.response = ResponseJson([message |-> HandlerThrew.message], 400)

----------------------------------------------------------------------------
(* C11, C12, C13: the outermost catch of handleRequest *)

\* the stage whose failure was caught: the last stage that ran before onError
Failed(stage) ==
    /\ Invoked("onError")
    /\ Len(inv.trace) >= 2
    /\ inv.trace[Len(inv.trace) - 1].stage = stage

C12_HookFirst ==
    (Done /\ router.config.onError /\ inv.error # NoError) =>
        LET hook == inv.trace[Len(inv.trace)]
        IN  /\ hook.stage = "onError"
            /\ hook.out = "return" =>
                  /\ inv.response = ResponseJson([from |-> "onError", error |-> inv.error], 599)
                  /\ inv.response # DefaultTranslation(inv.error)
            /\ hook.out = "throw" => inv.response = CriticalFailure

\* the hook was given a validation error and returned its own response
C12_Witness ==
    /\ Done
    /\ router.config.onError
    /\ isInvalidZodSchemaError(inv.error)
    /\ Failed("body")
    /\ inv.response.status = 599
    /\ inv.response.body.error = inv.error

\* the value thrown by a handler or a global middleware, when it is neither
\* a RouterError nor a validation error
Unclassified(error) == ~isRouterError(error) /\ ~isInvalidZodSchemaError(error)

\* C13: without an onError hook, an unclassified value thrown by a handler or
\* a global middleware is answered 500 { message: "Internal Server Error" }:
\* the response is the same whatever the content of the thrown value.
C13_NoLeak ==
    ( /\ Done
      /\ ~router.config.onError
      /\ Failed("handler") \/ Failed("global")
      /\ Unclassified(inv.error) ) =>
        inv.response = ResponseJson([message |-> Msg("Internal Server Error")], 500)

\* a handler threw a value carrying a stack and the response is the generic one
C13_Witness ==
    /\ Done
    /\ ~router.config.onError
    /\ Failed("handler")
    /\ inv.error = PlainError("stack of handler")
    /\ inv.response = ResponseJson([message |-> Msg("Internal Server Error")], 500)

----------------------------------------------------------------------------
(* C14: the handlers createRouter exposes *)

\* the methods declared by at least one of the endpoints given to createRouter
DeclaredMethods == UNION { Range(e.method) : e \in Range(router.declared) }

\* C14: the router has a handler for exactly the methods that one of its
\* endpoints declares, every element of a method array counting; a router built
\* from no endpoint has none; and no invocation is bound to another method.
C14_ExposedMethods ==
    /\ router.server = DeclaredMethods
    /\ router.declared = <<>> => router.server = {}
    /\ inv.pc # "idle" => inv.method \in DeclaredMethods

\* the handler of a method that is declared only as the second element of a
\* method array was invoked
C14_Witness ==
    /\ inv.pc # "idle"
    /\ inv.method = "DELETE"
    /\ \A e \in Range(router.declared) : e.method[1] # "DELETE"
    /\ \E e \in Range(router.declared) : Len(e.method) = 2 /\ e.method[2] = "DELETE"

----------------------------------------------------------------------------
(* C15: basePath *)

\* the endpoints of the router that declare the method and whose pattern, as
\* declared, accepts the path
DeclaredFor(method, pathname) ==
    { k \in 1..Len(router.declared) :
        /\ Declares(router.declared[k], method)
        /\ Accepts(router.declared[k].route, pathname) }

\* route resolution ran for this invocation, on the request as it was sent
Resolved ==
    /\ Invoked("match")
    /\ \A k \in Events("global") : inv.trace[k].out = "next"

\* C15: every endpoint is registered under basePath followed by its pattern;
\* when a base path is configured, a request to basePath followed by an
\* instance of a declared pattern reaches an endpoint declared with a pattern
\* accepting that instance, and a request to the bare instance, which no
\* registration covers, is answered 404.
C15_BasePath ==
    /\ Len(registered) = Len(router.declared)
    /\ \A k \in 1..Len(registered) :
          /\ registered[k].id = k
          /\ registered[k].route = router.config.basePath \o router.declared[k].route
    /\ (router.config.basePath # <<>> /\ Resolved) =>
          \A bare \in RequestPathnames :
              (DeclaredFor(inv.method, bare) # {} /\ WellEncoded(bare)) =>
                  /\ inv.request.url.pathname = router.config.basePath \o bare =>
                        /\ inv.trace[Len(inv.trace)].stage = "match" => inv.pc = "params"
                        /\ inv.endpoint.id \in DeclaredFor(inv.method, bare)
                  /\ (inv.request.url.pathname = bare /\ ~HasRoute(bare)) =>
                        /\ inv.endpoint = NoEndpoint
                        /\ (Done /\ ~router.config.onError) =>
                              inv.response = ResponseJson([message |-> NoRouteFound(bare)], 404)

\* with the base path /a, POST /a/u/x reached the handler of POST /u/:i
C15_Witness ==
    /\ router.config.basePath = <<"/", "a">>
    /\ inv.request.url.pathname = <<"/", "a", "/", "u", "/", "x">>
    /\ Invoked("handler")
    /\ router.declared[inv.endpoint.id].route = <<"/", "u", "/", ":", "i">>
    /\ inv.handled.kind = "RequestContext"
    /\ inv.handled.params = (<<"i">> :> <<"x">>)

----------------------------------------------------------------------------
(* C16: a body that cannot be decoded *)

\* getBody raised an error that is not the validator's: a reader of the clone
\* threw
DecodeFailed ==
    /\ inv.pc \in {"error", "done"}
    /\ Invoked("body")
    /\ \A k \in Events("body") : inv.trace[k].out = "throw"
    /\ ~isInvalidZodSchemaError(inv.error)

\* C16: whichever reader of the body throws, JSON decoding included, getBody
\* raises the RouterError UNPROCESSABLE_ENTITY "Invalid request body, the
\* content-type does not match the body format", and never an unclassified
\* error.
C16_DecodeFailureUnprocessable ==
    DecodeFailed =>
        /\ inv.error = UnprocessableBody
        /\ (Done /\ ~router.config.onError) => inv.response.status = 422

----------------------------------------------------------------------------
(* C17: which reader decodes the body *)

BodyMethods == {"POST", "PUT", "PATCH"}
JsonTypes   == {"application/json"}
FormTypes   == {"application/x-www-form-urlencoded", "multipart/form-data"}
TextTypes   == {"text/plain", "application/xml"}
BytesTypes  == {"application/octet-stream"}
BlobTypes   == {"image/png", "application/pdf"}

\* the reader that the first matching rule picks, "none" for no body
ReaderFor(method, contentType, bodySchema) ==
    IF method \notin BodyMethods THEN "none"
    ELSE IF contentType \in JsonTypes \/ bodySchema THEN "json"
    ELSE IF contentType \in FormTypes THEN "formData"
    ELSE IF contentType \in TextTypes THEN "text"
    ELSE IF contentType \in BytesTypes THEN "arrayBuffer"
    ELSE IF contentType \in BlobTypes THEN "blob"
    ELSE "none"

\* getBody has just returned the body of this request
BodyReturned ==
    /\ inv.pc = "query"
    /\ inv.trace[Len(inv.trace)] = Ev("body", 0, "return")

\* C17: the body that getBody returns is null for a method other than POST,
\* PUT and PATCH whatever the content type and the schema, and otherwise what
\* the reader of the first matching rule decoded (JSON for a JSON content type
\* or a configured body schema, whose output is then the body; form data; text;
\* raw bytes; blob), null when no rule matches.
C17_BodyDecoder ==
    BodyReturned =>
        LET request == inv.global.request
            bodySchema == HasSchema(inv.endpoint.config, "body")
            reader == ReaderFor(request.method, request.contentType, bodySchema)
        IN  /\ reader = "none" => inv.ctx.body = Null
            /\ reader = "json" =>
                  IF bodySchema
                  THEN /\ inv.validated["body"].ran
                       /\ inv.ctx.body = Typed(Decoded("json"))
                  ELSE inv.ctx.body = Decoded("json")
            /\ reader \notin {"none", "json"} => inv.ctx.body = Decoded(reader)
            /\ inv.validated["body"].ran => reader = "json"

\* a form-encoded body was decoded as form data
C17_Witness ==
    /\ BodyReturned
    /\ inv.global.request.method = "POST"
    /\ inv.global.request.contentType = "application/x-www-form-urlencoded"
    /\ inv.ctx.body = Decoded("formData")

\* a text/plain body was decoded as JSON because a body schema is configured
C17_SchemaForcesJson ==
    /\ BodyReturned
    /\ inv.global.request.contentType = "text/plain"
    /\ inv.ctx.body = Typed(Decoded("json"))

\* a GET request with a JSON content type to an endpoint with a body schema
\* has no body
C17_NoBodyForGet ==
    /\ BodyReturned
    /\ inv.global.request.method = "GET"
    /\ inv.global.request.contentType = "application/json"
    /\ HasSchema(inv.endpoint.config, "body")
    /\ inv.ctx.body = Null

----------------------------------------------------------------------------
(* C18: the context handed along the per-endpoint pipeline *)

\* the value is a Request Context that carries the mutation of middleware j
Carries(value, j) == value.kind = "RequestContext" /\ j \in value.marks

\* the middleware of entries j..k-1 of the pipeline returned a Request Context
ReturnContexts(j, k) ==
    \A m \in j..(k - 1) : inv.given[m].out.kind = "RequestContext"

\* C18: the first per-endpoint middleware receives the populated Request
\* Context, each later one the value its predecessor returned, the handler the
\* value the last one returned; so a mutation made by a middleware that
\* returns its context is seen by every later middleware and by the handler, as
\* long as those in between return their context too.
C18_ContextHandedOn ==
    LET n == Len(inv.given)
    IN  /\ n >= 1 => inv.given[1].in = inv.populated
        /\ \A k \in 2..n : inv.given[k].in = inv.given[k - 1].out
        /\ Invoked("handler") =>
              inv.handled = IF n = 0 THEN inv.populated ELSE inv.given[n].out
        /\ \A j \in 1..n :
              Carries(inv.given[j].out, inv.given[j].idx) =>
                  /\ \A k \in (j + 1)..n :
                        ReturnContexts(j, k) => Carries(inv.given[k].in, inv.given[j].idx)
                  /\ (Invoked("handler") /\ ReturnContexts(j, n + 1)) =>
                        Carries(inv.handled, inv.given[j].idx)

\* the handler received the mutations of both middleware of its endpoint
C18_Witness ==
    /\ Invoked("handler")
    /\ Len(inv.given) = 2
    /\ inv.populated.kind = "RequestContext"
    /\ inv.populated.marks = {}
    /\ inv.handled.kind = "RequestContext"
    /\ inv.handled.marks = {1, 2}

----------------------------------------------------------------------------
(* C19: the order of the stages of one request *)

\* the position of a stage in the pipeline
StageRank ==
    [methodCheck |-> 1, global |-> 2, match |-> 3, params |-> 4, body |-> 5, query |-> 6,
     use |-> 7, handler |-> 8, onError |-> 9]

\* the list entries of a repeated stage ran one at a time, in list order
InListOrder(stage) ==
    \A k \in Events(stage) :
        inv.trace[k].idx = Cardinality({ j \in Events(stage) : j <= k })

\* C19: the stages of one request ran in pipeline order: the method check
\* first, then the global middleware one after the other in list order, all of
\* them before route resolution, then params, body and query extraction, all
\* three before the first per-endpoint middleware, then the per-endpoint
\* middleware one after the other in list order, all of them before the
\* handler, which runs at most once.
C19_StageOrder ==
    /\ inv.trace # <<>> => inv.trace[1].stage = "methodCheck"
    /\ \A k \in 1..(Len(inv.trace) - 1) :
          LET a == inv.trace[k].stage
              b == inv.trace[k + 1].stage
          IN  \/ StageRank[a] < StageRank[b]
              \/ a = b /\ a \in {"global", "use"}
    /\ InListOrder("global")
    /\ InListOrder("use")
    /\ Invoked("match") => Cardinality(Events("global")) = router.config.use
    /\ (Invoked("use") \/ Invoked("handler")) =>
          \A stage \in {"params", "body", "query"} :
              \E k \in Events(stage) : inv.trace[k].out = "return"
    /\ Invoked("handler") => Cardinality(Events("use")) = inv.endpoint.config.use
    /\ Cardinality(Events("handler")) <= 1
    /\ \A stage \in {"methodCheck", "match", "params", "body", "query"} :
          Cardinality(Events(stage)) <= 1

\* every stage ran: two global middleware, resolution, the three extractions,
\* two per-endpoint middleware and the handler
C19_Witness ==
    /\ Done
    /\ Cardinality(Events("global")) = 2
    /\ Cardinality(Events("use")) = 2
    /\ Invoked("handler")
    /\ inv.validated["body"].ran
    /\ Len(inv.trace) = 10

----------------------------------------------------------------------------
(* C20: the route patterns createEndpoint accepts *)

NameChars == {"a", "-"}
IsName(seg) == seg # <<>> /\ \A k \in 1..Len(seg) : seg[k] \in NameChars

\* the route pattern grammar: the pattern starts with "/" and each segment is
\* a name or ":" followed by a name (an empty segment, as in "/" or "/a/", is
\* let through here)
ConformsToGrammar(route) ==
    /\ Len(route) >= 1
    /\ route[1] = "/"
    /\ \A seg \in Range(SplitSlash(route)) :
          \/ seg = <<>>
          \/ IsName(seg)
          \/ seg[1] = ":" /\ IsName(Tail(seg))

\* C20: createEndpoint, given a supported method and a function, returns the
\* endpoint only for a pattern that conforms to the route pattern grammar and
\* raises a RouterError of the bad-request class for every other pattern
\* (a ":" inside a segment, a bare ":" segment, a doubled ":").
C20_GrammarEnforced ==
    ( /\ last.op = "createEndpoint"
      /\ isSupportedMethod(last.method)
      /\ isValidHandler(last.handler)
      /\ ~ConformsToGrammar(last.route) ) =>
        /\ last.result.kind = "throw"
        /\ last.result.error.kind = "RouterError"
        /\ last.result.error.status = 400

----------------------------------------------------------------------------
(* C21: an endpoint declared with several methods *)

\* where a registration is stored: the key of the static map without the
\* method, or the terminal node of the pattern
PositionOf(e) ==
    IF IsDynamic(e) THEN [in |-> "trie", at |-> TerminalOf(e.route)]
    ELSE [in |-> "statics", at |-> e.route]

\* no later registration shares a method and the position of e
NotReplaced(e) ==
    \A r \in Registered :
        r.id > e.id => \/ PositionOf(r) # PositionOf(e)
                       \/ Range(r.method) \cap Range(e.method) = {}

\* C21 as stated: a path that reaches an endpoint under one of its declared
\* methods reaches the same endpoint with the same parameters under every
\* method it declares, and it is reached only under a method it declares (read
\* for an endpoint that no later registration replaced).
C21_EveryMethodReaches ==
    (last.op = "match" /\ last.result.kind = "found") =>
        LET e == last.result.endpoint
        IN  /\ Declares(e, last.method)
            /\ NotReplaced(e) =>
                  \A m \in Range(e.method) : TrieMatch(trie, m, last.pathname) = last.result

\* C21, amended: add stores the endpoint under each of its methods at the one
\* position of its pattern; a path that reaches an endpoint under one of its
\* methods reaches, under every other method m it declares and with the same
\* parameters, the endpoint registered last for m at that position, unless a
\* static route registered for (m, path) takes precedence; an endpoint is
\* reached only under a method it declares.
C21_SharedPattern ==
    /\ (last.op = "add" /\ last.error = NoError) =>
          LET e == last.endpoint
          IN  /\ Range(e.method) \subseteq trie.methods
              /\ \A m \in Range(e.method) :
                    IF IsDynamic(e)
                    THEN /\ m \in DOMAIN trie.nodes[TerminalOf(e.route)].endpoints
                         /\ trie.nodes[TerminalOf(e.route)].endpoints[m] = e
                    ELSE /\ <<m, e.route>> \in DOMAIN trie.statics
                         /\ trie.statics[<<m, e.route>>] = e
    /\ (last.op = "match" /\ last.result.kind = "found") =>
          LET e == last.result.endpoint
          IN  /\ Declares(e, last.method)
              /\ \A m \in Range(e.method) :
                    \/ IsDynamic(e) /\ ShadowedByStatic(m, last.pathname)
                    \/ LET other == TrieMatch(trie, m, last.pathname)
                           Same(r) == Declares(r, m) /\ PositionOf(r) = PositionOf(e)
                       IN  /\ other.kind = "found"
                           /\ other.params = last.result.params
                           /\ other.endpoint = LastRegistered(Same)

\* a dynamic endpoint declared for GET and POST was reached under POST, its
\* second method, with a bound parameter
C21_Witness ==
    /\ last.op = "match"
    /\ last.method = "POST"
    /\ last.result.kind = "found"
    /\ last.result.endpoint.method = <<"GET", "POST">>
    /\ IsDynamic(last.result.endpoint)
    /\ last.result.params = (<<"i">> :> <<"m">>)
    /\ TrieMatch(trie, "GET", last.pathname).kind = "found"

----------------------------------------------------------------------------
(* C22: request handling leaves the matcher as the build phase left it *)

\* the matcher as createRouter built it
BuiltTrie == createRouter(router.declared, router.config).trie

\* C22: whatever requests have been processed, hits and misses alike, the
\* static map and every node's static children, parameter child and method
\* map are those of the build phase, so match(method, path) gives what it gave
\* before the first request.
C22_MatcherFrozen ==
    /\ trie = BuiltTrie
    /\ \A method \in router.server, pathname \in RequestPathnames :
          TrieMatch(trie, method, pathname) = TrieMatch(BuiltTrie, method, pathname)

\* a request has just resolved to a dynamic route and bound a parameter
C22_Witness ==
    /\ inv.pc = "params"
    /\ inv.trace[Len(inv.trace)] = Ev("match", 0, "found")
    /\ inv.params = (<<"i">> :> <<"x">>)
    /\ trie = BuiltTrie

----------------------------------------------------------------------------
(* C23: the objects of two invocations in flight *)

\* the objects that the middleware and the handler of invocation f can reach
\* through the contexts they are given
ReachableBy(f) ==
    ( { flights[f].pair[k] : k \in DOMAIN flights[f].pair }
      \cup { flights[f].ctx[k] : k \in DOMAIN flights[f].ctx }
      \cup { flights[f].params } ) \ {NoObject}

\* the writes that invocation f can observe
ObservedBy(f) == { w \in heap : w[1] \in ReachableBy(f) }

\* C23: two invocations in flight share no object but the configured
\* `context`: each has its own pair, its own Request Context and its own
\* params, searchParams, body and headers (the params of a static hit too), so
\* what the middleware of one invocation writes is observed by no other
\* invocation unless it was written to the configured `context`.
C23_Isolation ==
    /\ \A f, g \in Flights :
          f # g => ReachableBy(f) \cap ReachableBy(g) \subseteq {ConfigContext}
    /\ \A f \in Flights :
          \A w \in ObservedBy(f) : w[2] = f \/ w[1] = ConfigContext
    /\ ~router.config.context => \A f \in Flights : ConfigContext \notin ReachableBy(f)

\* two invocations that both hit a static route are before their handlers,
\* and the middleware of each wrote to its params
C23_Witness ==
    /\ \A f \in {1, 2} :
          /\ flights[f].pc = "handler"
          /\ flights[f].params.site = "params: {}"
          /\ <<flights[f].ctx.params, f, "use">> \in heap
    /\ flights[1].ctx.params # flights[2].ctx.params

----------------------------------------------------------------------------
(* C29: the `context` field of the Request Context *)

Populated(f) == flights[f].pc \in {"use", "handler"}

\* C29: the `context` field of the Request Context is the configured
\* `context` object, or an object created for this Request Context when none
\* is configured; it is never the context of a replacement pair returned by a
\* global middleware, and when none is configured it is not the object the
\* global middleware were given either, so it carries nothing they wrote.
C29_ContextField ==
    \A f \in Flights :
        Populated(f) =>
            LET field == flights[f].ctx.context
                pair  == flights[f].pair
            IN  /\ field = IF router.config.context THEN ConfigContext ELSE Obj(f, "context")
                /\ pair.self.site = "replacement" => field # pair.context
                /\ ~router.config.context =>
                      /\ field # pair.context
                      /\ \A w \in heap : w[1] = field => w[3] # "global"

\* no context is configured, a global middleware wrote to the context it was
\* given, and the Request Context has been built
C29_Witness ==
    \E f \in Flights :
        /\ Populated(f)
        /\ ~router.config.context
        /\ <<flights[f].pair.context, f, "global">> \in heap
        /\ flights[f].ctx.context = Obj(f, "context")

----------------------------------------------------------------------------
(* C24: the method is checked again after the global pipeline *)

\* the global pipeline has ended with a pair (every entry of the list ran and
\* returned one) and handleRequest has gone on from there
GlobalPipelineEnded ==
    /\ inv.pc \notin {"idle", "global", "resolve"}
    /\ IsGlobalContext(inv.global)
    /\ Cardinality(Events("global")) = router.config.use
    /\ \A k \in Events("global") : inv.trace[k].out \in {"next", "rewrite"}

\* C24: when the request that the global pipeline ends with has a method
\* other than the one the invoked handler is bound to, the error raised is
\* METHOD_NOT_ALLOWED "The HTTP method '<M>' is not allowed" (a 405 response
\* under the default error handling), and neither route resolution nor
\* extraction, per-endpoint middleware or the handler runs.
C24_MethodRecheck ==
    (GlobalPipelineEnded /\ inv.global.request.method # inv.method) =>
        /\ inv.error = RouterError("METHOD_NOT_ALLOWED", NotAllowed(inv.global.request.method))
        /\ \A stage \in {"match", "params", "body", "query", "use", "handler"} : ~Invoked(stage)
        /\ inv.pc \in {"error", "done"}
        /\ (Done /\ ~router.config.onError) =>
              inv.response = ResponseJson([message |-> NotAllowed(inv.global.request.method)],
                                          405)

\* a global middleware replaced the GET request sent to the GET handler by a
\* POST request, and the response is 405
C24_Witness ==
    /\ Done
    /\ inv.method = "GET"
    /\ inv.request.method = "GET"
    /\ \E k \in Events("global") : inv.trace[k].out = "rewrite"
    /\ GlobalPipelineEnded
    /\ inv.global.request.method = "POST"
    /\ inv.response = ResponseJson([message |-> NotAllowed("POST")], 405)

----------------------------------------------------------------------------
(* C25: empty segments in registration and resolution *)

\* two paths made of the same non-empty segments in the same order
SameSegments(p, q) == SegmentsOf(p) = SegmentsOf(q)

\* C25: a path resolves to the same result as every path with the same
\* sequence of non-empty segments (a leading or trailing slash and empty
\* segments make no difference), whether the registered routes are static or
\* dynamic.
C25_SlashTolerant ==
    last.op = "match" =>
        \A q \in Pathnames :
            SameSegments(last.pathname, q) =>
                TrieMatch(trie, last.method, q) = last.result

----------------------------------------------------------------------------
(* C26: the literal child is preferred and the choice is final *)

\* some registered dynamic route reaches the trie position `prefix` and goes
\* on with the literal segment seg
LiteralAt(prefix, seg) ==
    \E d \in Registered :
        LET ds == SegmentsOf(d.route)
        IN  /\ IsDynamic(d)
            /\ Len(ds) > Len(prefix)
            /\ NodePath(ds, Len(prefix)) = prefix
            /\ ~IsParamSegment(ds[Len(prefix) + 1])
            /\ ds[Len(prefix) + 1] = seg

\* the trie position after the first k segments when the literal child is
\* taken wherever there is one and the parameter child only otherwise
RECURSIVE Taken(_, _)
Taken(segs, k) ==
    IF k = 0 THEN <<>>
    ELSE LET before == Taken(segs, k - 1)
         IN  Append(before, IF LiteralAt(before, segs[k]) THEN segs[k] ELSE ParamKey)

\* the pattern accepts the path segment by segment: equal literals, and any
\* well-encoded segment for a parameter
PatternAccepts(route, pathname) ==
    LET rs == SegmentsOf(route)
        ps == SegmentsOf(pathname)
    IN  /\ Len(rs) = Len(ps)
        /\ \A k \in 1..Len(rs) :
               IF IsParamSegment(rs[k]) THEN decodeURIComponent(ps[k]).ok
               ELSE rs[k] = ps[k]

\* C26: when match walks the trie, the endpoint it returns, if any, lies at
\* the position reached by taking at each segment the literal child equal to
\* the segment when there is one and the parameter child only when there is
\* none; a route that accepts the path through the parameter child of a node
\* whose literal child matched is never returned.
C26_LiteralFinal ==
    (last.op = "match" /\ ~ShadowedByStatic(last.method, last.pathname)) =>
        LET segs == SegmentsOf(last.pathname)
        IN  last.result.kind = "found" =>
                /\ IsDynamic(last.result.endpoint)
                /\ TerminalOf(last.result.endpoint.route) = Taken(segs, Len(segs))

\* match returned null after the literal branch dead-ended, although a
\* registered route for the method accepts the path through the parameter
\* child
C26_Witness ==
    /\ last.op = "match"
    /\ last.result = Null
    /\ ~ShadowedByStatic(last.method, last.pathname)
    /\ \E d \in Registered :
           /\ IsDynamic(d)
           /\ Declares(d, last.method)
           /\ PatternAccepts(d.route, last.pathname)
           /\ TerminalOf(d.route) # Taken(SegmentsOf(last.pathname),
                                          Len(SegmentsOf(last.pathname)))

----------------------------------------------------------------------------
(* C27: extraction stops at the first failing slot *)

\* the stage that extracts a slot
StageOf == [params |-> "params", body |-> "body", searchParams |-> "query"]

\* the slot's validator ran and rejected its input
Rejected(slot) == inv.validated[slot].ran /\ ~inv.validated[slot].result.success

\* the extraction of the slot failed: its validator rejected the input, or the
\* extraction threw
ExtractionFailed(slot) ==
    \/ Rejected(slot)
    \/ \E k \in Events(StageOf[slot]) : inv.trace[k].out = "throw"

\* the slots extracted after the given one
LaterSlots ==
    [params |-> {"body", "searchParams"}, body |-> {"searchParams"}, searchParams |-> {}]

\* C27: params is extracted before body and body before query, each at most
\* once; when the extraction of a slot fails, no later slot is extracted or
\* validated, no per-endpoint middleware and no handler runs, and the error
\* is that of the failing slot: for a rejected input the 422 response under
\* the default error handling lists the issues of that slot only.
C27_FirstFailureOnly ==
    /\ \A slot \in Slots : Cardinality(Events(StageOf[slot])) <= 1
    /\ \A slot \in Slots : \A later \in LaterSlots[slot] :
           /\ \A k \in Events(StageOf[slot]), j \in Events(StageOf[later]) : k < j
           /\ Invoked(StageOf[later]) => Invoked(StageOf[slot])
    /\ \A slot \in Slots :
           ExtractionFailed(slot) =>
               /\ \A later \in LaterSlots[slot] :
                      ~Invoked(StageOf[later]) /\ ~inv.validated[later].ran
               /\ ~Invoked("use")
               /\ ~Invoked("handler")
               /\ inv.pc \in {"error", "done"}
               /\ Rejected(slot) =>
                      /\ inv.error = InvalidZodSchemaError(
                                         "UNPROCESSABLE_ENTITY",
                                         formatZodError(inv.validated[slot].result.error))
                      /\ (Done /\ ~router.config.onError) =>
                             /\ inv.response.status = 422
                             /\ inv.response.body.details =
                                    formatZodError(inv.validated[slot].result.error)

\* the params of a request to an endpoint with schemas for all three slots
\* were rejected: the response is 422 and body and query were never looked at
C27_Witness ==
    /\ Done
    /\ inv.endpoint.id # 0
    /\ inv.endpoint.config.schemas = {"params", "body", "searchParams"}
    /\ isSupportedBodyMethod(inv.global.request.method)
    /\ Rejected("params")
    /\ inv.validated["params"].result.error.issues # <<>>
    /\ ~inv.validated["body"].ran
    /\ ~inv.validated["searchParams"].ran
    /\ inv.response.status = 422

----------------------------------------------------------------------------
(* C28: a registration that fails changes nothing *)

\* the step is a call of add that threw
FailedAdd == last' # last /\ last'.op = "add" /\ last'.error # NoError

----------------------------------------------------------------------------
(* Requests whose user functions may never settle *)

\* the user function awaited at the current position, if there is one
Awaited ==
    CASE inv.pc = "global"  -> "global"
      [] inv.pc = "use"     -> "use"
      [] inv.pc = "handler" -> "handler"
      [] inv.pc = "error" /\ router.config.onError -> "onError"
      [] OTHER -> "none"

\* the promise of the awaited middleware, handler or onError hook never
\* settles: the await never resumes, and nothing else resumes handleRequest
NeverSettles ==
    /\ Awaited # "none"
    /\ inv' = [inv EXCEPT !.pc = "pending",
                          !.trace = Append(@, Ev(Awaited, inv.i, "pending"))]
    /\ UNCHANGED <<matcherVars, router, flightVars>>

\* the steps of handleRequest that the event loop runs once they are ready
Pipeline ==
    \/ GlobalNotFunction
    \/ GlobalMiddleware
    \/ Resolve
    \/ Params
    \/ Body
    \/ Query
    \/ UseNotFunction
    \/ Use
    \/ Handler
    \/ OnError

NextSettle == NextRouter \/ NeverSettles

\* a continuation that is ready is run (weak fairness of the pipeline);
\* whether a user function settles is up to that function
SpecSettle == InitRouter /\ [][NextSettle]_vars /\ WF_vars(Pipeline)

----------------------------------------------------------------------------
(* C30: termination *)

Pending == inv.pc = "pending"

====
